---- MODULE Spec2Model ----
(***************************************************************************)
(* Financial_Compliance_RAG: the agentic retrieval workflow                *)
(* (src/graph/workflow.py, src/agents/*.py, src/tools/*.py) and the        *)
(* ingestion of a document (src/ingestion/chunker.py,                      *)
(* src/ingestion/metadata_extractor.py, ingest.py): SpecChunk, SpecMeta.   *)
(*                                                                         *)
(* One behaviour of Spec is one call of run_query(query): the router node, *)
(* the conditional edges and the retrieval node of the compiled StateGraph,*)
(* and the result dictionary run_query hands back.                         *)
(*                                                                         *)
(* How the StateGraph runs the two nodes (langgraph, as used by            *)
(* create_workflow):                                                       *)
(*   - the state lives in one channel per AgentState key; a node is given  *)
(*     a dict read from the channels and the dict it returns is written    *)
(*     back key by key: a plain key takes the returned value, a key        *)
(*     annotated with a reducer (agent_thoughts, operator.add) takes       *)
(*     reducer(channel value, returned value);                             *)
(*   - the list held by a channel is handed to the node as it is, so a     *)
(*     node that appends to state['agent_thoughts'] in place has changed   *)
(*     the channel's value before its return value is reduced into it;     *)
(*   - a conditional edge function is given a dict read afresh from the    *)
(*     channels; it only returns the name of the next node, and what it    *)
(*     assigns to that dict is written nowhere;                            *)
(*   - invoke() raises GraphRecursionError when the graph has not reached  *)
(*     END after recursion_limit supersteps.                               *)
(***************************************************************************)
EXTENDS Integers, Sequences, FiniteSets, TLC

VARIABLES
    settings,   \* src/config/settings.py: the configuration read from the environment
    state,      \* the AgentState held in the graph's channels
    pc,         \* where run_query is: "router", "retrieval", "end", "raised", "returned"
    steps,      \* supersteps the graph has executed
    calls,      \* the collaborator calls made so far, in order
    runs,       \* how many times the retrieval node has executed
    exc,        \* the exception app.invoke raised, or None
    result,     \* what run_query returned
    classified, \* the classifications router_node has produced, over several runs
    nroutes,    \* how many times router_node has been called
    candidates, \* what retrieve_documents returned to the retrieval node
    chunker,    \* the SemanticChunker: chunk_size and chunk_overlap
    doc_elements,  \* the elements of one loaded document, in order
    doc_chunks,    \* what chunk_elements returned for them
    doc_filename,  \* the document's file name
    all_metadatas, \* ingest_documents' all_metadatas: one record for each chunk
    ingest_pc,  \* where the ingestion is: "idle", "loaded", "chunked", "extracted",
                \* "stored", "cited"
    collection, \* the records of the Chroma collection, in the order they were added
    handed,     \* the ids given to add_documents, call after call
    ingest_exc, \* the exception the last add_documents raised, or None
    cited,      \* the citations generate_response built from the stored chunks
    all_documents, \* load_directory's all_documents: file name and elements, in order
    pdf_files,  \* load_directory's pdf_files: the files of the directory
    threads,    \* the concurrent run_query calls: each one's query, place and answers
    channels,   \* the AgentState held by each compiled graph
    callers,    \* the concurrent get_chroma_manager calls: each one's place and value
    _chroma_manager, \* chroma_manager.py's global: the instance, or None
    constructed \* how many ChromaManager instances were constructed

\* The variables of the ingestion
ingestion ==
    <<chunker, doc_elements, doc_chunks, doc_filename, all_metadatas, ingest_pc,
      collection, handed, ingest_exc, cited, all_documents, pdf_files>>

\* The variables of the concurrent calls
concurrency == <<threads, channels, callers, _chroma_manager, constructed>>

vars == <<settings, state, pc, steps, calls, runs, exc, result, classified, nroutes,
          candidates, ingestion, concurrency, candidates>>

(***************************************************************************)
(* Bounds of the model.                                                    *)
(***************************************************************************)
\* MAX_ITERATIONS ranges over 1..MaxIterationsBound
MaxIterationsBound == 3
\* TOP_K_FINAL ranges over 1..MaxTopKFinal
MaxTopKFinal == 2
\* TOP_K_RETRIEVAL ranges over 1..MaxTopKRetrieval
MaxTopKRetrieval == 3
\* documents in the index
NumDocs == 3
\* a query is a fragment after at most MaxPadding other characters
MaxPadding == 1
\* invoke()'s recursion_limit (langgraph's default is 25; workflow.py passes none)
RecursionLimit == 5
\* router_node calls in one behaviour of SpecRoute
MaxClassifications == 3
\* a chunked text is at most MaxPieces pieces
MaxPieces == 4
\* chunk_size ranges over 1..MaxChunkSize
MaxChunkSize == 7
\* chunk_overlap ranges over 0..MaxChunkOverlap
MaxChunkOverlap == 4
\* a text given to extract_metadata is at most MaxTextFragments fragments
MaxTextFragments == 2

(***************************************************************************)
(* Python values.                                                          *)
(***************************************************************************)
None == "None"
EmptyStr == ""
Truthy(v) == v # None /\ v # EmptyStr

Min(a, b) == IF a <= b THEN a ELSE b

(***************************************************************************)
(* Strings of the program are sequences of one-character strings, so that  *)
(* str.lower() and the substring test `keyword in query` are computed.     *)
(***************************************************************************)
UpperCase == <<"A", "B", "C", "D", "E", "F", "G", "H", "I", "J", "K", "L", "M", "N", "O", "P", "Q", "R", "S", "T", "U", "V", "W", "X", "Y", "Z">>
LowerCase == <<"a", "b", "c", "d", "e", "f", "g", "h", "i", "j", "k", "l", "m", "n", "o", "p", "q", "r", "s", "t", "u", "v", "w", "x", "y", "z">>

\* str.lower() on one character
LowerChar(c) ==
    IF \E i \in 1..Len(UpperCase) : UpperCase[i] = c
    THEN LowerCase[CHOOSE i \in 1..Len(UpperCase) : UpperCase[i] = c]
    ELSE c

\* str.lower()
Lower(s) == [i \in 1..Len(s) |-> LowerChar(s[i])]

\* Python's `kw in s` on strings: kw occurs in s as a substring
Contains(kw, s) ==
    \E i \in 0..(Len(s) - Len(kw)) : SubSeq(s, i + 1, i + Len(kw)) = kw

\* any(keyword in query for keyword in keywords)
AnyKeywordIn(keywords, query) ==
    \E k \in 1..Len(keywords) : Contains(keywords[k], query)

\* RouterAgent.__init__: the three keyword lists
greeting_keywords ==
    <<<<"h", "e", "l", "l", "o">>,
      <<"h", "i">>,
      <<"h", "e", "y">>,
      <<"g", "o", "o", "d", " ", "m", "o", "r", "n", "i", "n", "g">>,
      <<"g", "o", "o", "d", " ", "a", "f", "t", "e", "r", "n", "o", "o", "n">>>>
compliance_keywords ==
    <<<<"r", "e", "g", "u", "l", "a", "t", "i", "o", "n">>,
      <<"c", "o", "m", "p", "l", "i", "a", "n", "c", "e">>,
      <<"r", "e", "q", "u", "i", "r", "e", "m", "e", "n", "t">>,
      <<"r", "u", "l", "e">>,
      <<"p", "o", "l", "i", "c", "y">>>>
risk_keywords ==
    <<<<"r", "i", "s", "k">>,
      <<"t", "h", "r", "e", "a", "t">>,
      <<"v", "u", "l", "n", "e", "r", "a", "b", "i", "l", "i", "t", "y">>,
      <<"e", "x", "p", "o", "s", "u", "r", "e">>>>

\* (an agent whose greeting keywords are used up by the first router_node call)
RouterAgent_Used ==
    [greeting_keywords   |-> IF nroutes = 0 THEN greeting_keywords ELSE <<>>,
     compliance_keywords |-> compliance_keywords,
     risk_keywords       |-> risk_keywords]

\* RouterAgent(): a new agent, nothing shared with the agents made before it
RouterAgent ==
    [greeting_keywords   |-> greeting_keywords,
     compliance_keywords |-> compliance_keywords,
     risk_keywords       |-> risk_keywords]

\* The fragments of the queries: "Hi", "Hello", "risk", "Rule", "tax",
\* "this risk" (a greeting keyword inside a word, and a risk keyword) and
\* "risk rule" (a risk keyword before a compliance keyword)
Fragments ==
    {<<"H", "i">>,
     <<"H", "e", "l", "l", "o">>,
     <<"r", "i", "s", "k">>,
     <<"R", "u", "l", "e">>,
     <<"t", "a", "x">>,
     <<"t", "h", "i", "s", " ", "r", "i", "s", "k">>,
     <<"r", "i", "s", "k", " ", "r", "u", "l", "e">>}

\* n filler characters
Padding(n) == [i \in 1..n |-> "x"]

\* The queries of the model: nothing or a fragment, after some padding
Queries ==
    { Padding(n) \o f : n \in 0..MaxPadding, f \in Fragments \cup {<<>>} }

\* One entry of agent_thoughts: the message appended and the number it formats
Thought(kind, n) == [kind |-> kind, n |-> n]

(***************************************************************************)
(* RouterAgent.route: the dict the router node returns.                    *)
(***************************************************************************)
\* (route with the risk keywords tried before the compliance keywords)
route_RiskFirst(self, s) ==
    LET query == Lower(s.query)
        classify(qt, rr, thought) ==
            [s EXCEPT !.query_type = qt,
                      !.requires_retrieval = rr,
                      !.agent_thoughts = Append(@, Thought(thought, 0))]
    IN  IF AnyKeywordIn(self.greeting_keywords, query)
        THEN classify("greeting", FALSE, "classified greeting")
        ELSE IF AnyKeywordIn(self.risk_keywords, query)
        THEN classify("risk", TRUE, "classified risk")
        ELSE IF AnyKeywordIn(self.compliance_keywords, query)
        THEN classify("compliance", TRUE, "classified compliance")
        ELSE classify("general", TRUE, "classified general")

route(self, s) ==
    LET query == Lower(s.query)
        classify(qt, rr, thought) ==
            [s EXCEPT !.query_type = qt,
                      !.requires_retrieval = rr,
                      !.agent_thoughts = Append(@, Thought(thought, 0))]
    IN  IF AnyKeywordIn(self.greeting_keywords, query)
        THEN classify("greeting", FALSE, "classified greeting")
        ELSE IF AnyKeywordIn(self.compliance_keywords, query)
        THEN classify("compliance", TRUE, "classified compliance")
        ELSE IF AnyKeywordIn(self.risk_keywords, query)
        THEN classify("risk", TRUE, "classified risk")
        ELSE classify("general", TRUE, "classified general")

\* router_node: a new RouterAgent routes the state
router_node(s) == route(RouterAgent, s)

(***************************************************************************)
(* The documents of the index, as ChromaManager.similarity_search formats  *)
(* them: {text, metadata, distance, id}.  compliance_categories is stored  *)
(* as one comma-separated string (a sequence of characters here, a         *)
(* category code standing for its characters).                             *)
(***************************************************************************)
DocIds == 1..NumDocs

StoredCategories(i) ==
    CASE i % 3 = 1 -> <<"KYC">>
      [] i % 3 = 2 -> <<"AML", ",", "KYC">>
      [] OTHER     -> <<>>

Doc(i) ==
    [id       |-> i,
     text     |-> i,
     distance |-> i % 2,
     metadata |-> [filename              |-> (i + 1) \div 2,
                   chunk_index           |-> (i + 1) % 2,
                   compliance_categories |-> StoredCategories(i)]]

\* What one similarity_search may answer for n_results = k: at most k of the
\* indexed documents, each at most once
SearchResults(k) ==
    { [j \in 1..Len(f) |-> Doc(f[j])] :
        f \in UNION { { g \in [1..n -> DocIds] :
                          \A a, b \in 1..n : a # b => g[a] # g[b] } :
                      n \in 0..Min(k, NumDocs) } }

\* What the generation backend may answer
LlmAnswers == {EmptyStr, "answer"}

\* One collaborator call: the function, its query, its top_k and the number of
\* documents passed to it (for retrieve_documents: the number it returned)
Call(fn, query, k, n) == [fn |-> fn, query |-> query, k |-> k, n |-> n]

(***************************************************************************)
(* rerank_documents: sorted(documents, key=distance or 999)[:top_k].       *)
(* sorted() is stable: equal keys keep their order.                        *)
(***************************************************************************)
DEFAULT_DISTANCE == 999

SortKey(d) == IF "distance" \in DOMAIN d THEN d.distance ELSE DEFAULT_DISTANCE

\* x put into the sorted sequence after every element whose key is <= its own
InsertSorted(sorted, x) ==
    LET after == { i \in 1..Len(sorted) : SortKey(sorted[i]) <= SortKey(x) }
        n     == Cardinality(after)
    IN  SubSeq(sorted, 1, n) \o <<x>> \o SubSeq(sorted, n + 1, Len(sorted))

RECURSIVE Sorted(_)
Sorted(docs) ==
    IF docs = <<>> THEN <<>>
    ELSE InsertSorted(Sorted(SubSeq(docs, 1, Len(docs) - 1)), docs[Len(docs)])

\* (rerank_documents without sorted(): the first top_k documents as returned)
rerank_documents_Unsorted(query, documents, top_k) ==
    SubSeq(documents, 1, Min(top_k, Len(documents)))

\* (rerank_documents without the [:top_k] slice)
rerank_documents_Unsliced(query, documents, top_k) == Sorted(documents)

rerank_documents(query, documents, top_k) ==
    LET sorted_docs == Sorted(documents)
    IN  SubSeq(sorted_docs, 1, Min(top_k, Len(sorted_docs)))

(***************************************************************************)
(* generate_response: (response, citations), and whether the generation    *)
(* backend was invoked; llm is what the backend answers when it is.        *)
(***************************************************************************)
GREETING_LONG == "Hello! I'm your Financial Compliance Assistant. I can help you ..."
NO_INFORMATION == "I apologize, but I couldn't find relevant information ..."

\* str.split(','), of a non-empty string
RECURSIVE SplitComma(_, _)
SplitComma(s, cur) ==
    IF s = <<>> THEN <<cur>>
    ELSE IF Head(s) = "," THEN <<cur>> \o SplitComma(Tail(s), <<>>)
    ELSE SplitComma(Tail(s), Append(cur, Head(s)))

\* (the citation numbered as by enumerate(documents), from 0)
Citation_ZeroBased(idx, doc) ==
    LET categories_str == doc.metadata.compliance_categories
    IN  [index                 |-> idx - 1,
         filename              |-> doc.metadata.filename,
         chunk_index           |-> doc.metadata.chunk_index,
         compliance_categories |-> IF categories_str # <<>>
                                   THEN SplitComma(categories_str, <<>>)
                                   ELSE <<>>]

Citation(idx, doc) ==
    LET categories_str == doc.metadata.compliance_categories
    IN  [index                 |-> idx,
         filename              |-> doc.metadata.filename,
         chunk_index           |-> doc.metadata.chunk_index,
         compliance_categories |-> IF categories_str # <<>>
                                   THEN SplitComma(categories_str, <<>>)
                                   ELSE <<>>]

generate_response(query, documents, query_type, llm) ==
    IF query_type = "greeting"
    THEN [response |-> GREETING_LONG, citations |-> <<>>, llm_called |-> FALSE]
    ELSE IF documents = <<>>
    THEN [response |-> NO_INFORMATION, citations |-> <<>>, llm_called |-> FALSE]
    ELSE [response   |-> llm,
          citations  |-> [i \in 1..Len(documents) |-> Citation(i, documents[i])],
          llm_called |-> TRUE]

(***************************************************************************)
(* RetrievalAgent.process: Think -> Act -> Observe on the dict s.          *)
(* retrieved / retrieve_fails: what retrieve_documents answers, or that it *)
(* raises; llm / llm_fails: the same for the generation backend.           *)
(* The value is the dict as the node left it, the calls it made and        *)
(* whether it raised instead of returning.                                 *)
(***************************************************************************)
AppendThought(s, kind, n) ==
    [s EXCEPT !.agent_thoughts = Append(@, Thought(kind, n))]

\* `len(state['retrieved_docs']) >= settings.TOP_K_FINAL`
Sufficient(s) == Len(s.retrieved_docs) >= settings.TOP_K_FINAL

\* (the budget test with > for >=)
Exhausted_Strict(s) == s.iteration > s.max_iterations

\* `state['iteration'] >= state['max_iterations']`
Exhausted(s) == s.iteration >= s.max_iterations

\* (the else branch also rewriting the query before the next iteration)
Iterate_Reformulating(s) ==
    [AppendThought(s, "insufficient - will iterate", 0)
         EXCEPT !.iteration = @ + 1, !.query = Append(@, "x")]

\* The else branch of OBSERVE: a thought, and `state['iteration'] += 1`
Iterate(s) ==
    [AppendThought(s, "insufficient - will iterate", 0) EXCEPT !.iteration = @ + 1]

process(s, retrieved, retrieve_fails, llm, llm_fails) ==
    LET \* THINK
        s1 == AppendThought(s, "analyzing", s.iteration)
        \* ACT: `if not state['retrieved_docs']`
        search == s1.retrieved_docs = <<>>
        s1a == IF search THEN AppendThought(s1, "no documents yet", 0) ELSE s1
        c1 == IF search
              THEN <<Call("retrieve_documents", s.query, settings.TOP_K_RETRIEVAL,
                          IF retrieve_fails THEN 0 ELSE Len(retrieved))>>
              ELSE <<>>
    IN  IF search /\ retrieve_fails
        THEN [state |-> s1a, calls |-> c1, raised |-> "RetrievalFailure"]
        ELSE
        LET s2 == IF ~search THEN s1a
                  ELSE IF retrieved # <<>>
                  THEN [AppendThought(s1a, "retrieved - reranking", Len(retrieved))
                            EXCEPT !.retrieved_docs =
                                rerank_documents(s.query, retrieved, settings.TOP_K_FINAL)]
                  ELSE [s1a EXCEPT !.retrieved_docs = <<>>]
            c2 == IF search /\ retrieved # <<>>
                  THEN Append(c1, Call("rerank_documents", s.query,
                                       settings.TOP_K_FINAL, Len(retrieved)))
                  ELSE c1
            \* OBSERVE
            sufficient == Sufficient(s2)
            exhausted  == Exhausted(s2)
            s3 == IF sufficient
                  THEN AppendThought(s2, "sufficient - generating", Len(s2.retrieved_docs))
                  ELSE AppendThought(s2, "max iterations - generating", 0)
            g  == generate_response(s3.query, s3.retrieved_docs, s3.query_type, llm)
            c3 == Append(c2, Call("generate_response", s3.query, 0, Len(s3.retrieved_docs)))
            c4 == IF g.llm_called THEN Append(c3, Call("llm", s3.query, 0, Len(s3.retrieved_docs)))
                  ELSE c3
        IN  IF sufficient \/ exhausted
            THEN IF g.llm_called /\ llm_fails
                 THEN [state |-> s3, calls |-> c4, raised |-> "SynthesisFailure"]
                 ELSE [state  |-> [s3 EXCEPT !.response = g.response,
                                             !.citations = g.citations],
                       calls  |-> c4,
                       raised |-> None]
            ELSE [state  |-> Iterate(s2),
                  calls  |-> c2,
                  raised |-> None]

(***************************************************************************)
(* The conditional edges of create_workflow.  Each is given a dict read    *)
(* from the channels; its value here is the branch it returns and that     *)
(* dict as the function left it.                                           *)
(***************************************************************************)
GREETING_SHORT == "Hello! I'm your Financial Compliance Assistant. How can I help you today?"

\* (should_retrieve answering "retrieval" whatever the classification)
should_retrieve_Always(s) == [next |-> "retrieval", local |-> s]

should_retrieve(s) ==
    IF s.requires_retrieval
    THEN [next |-> "retrieval", local |-> s]
    ELSE [next |-> "end", local |-> [s EXCEPT !.response = GREETING_SHORT]]

\* (should_continue sending an unfinished run back to the router)
should_continue_Rerouting(s) ==
    IF Truthy(s.response) THEN [next |-> "end", local |-> s]
    ELSE IF s.iteration >= s.max_iterations THEN [next |-> "end", local |-> s]
    ELSE [next |-> "router", local |-> s]

should_continue(s) ==
    IF Truthy(s.response) THEN [next |-> "end", local |-> s]
    ELSE IF s.iteration >= s.max_iterations THEN [next |-> "end", local |-> s]
    ELSE [next |-> "retrieval", local |-> s]

(***************************************************************************)
(* The StateGraph's channels (AgentState, state.py).                       *)
(***************************************************************************)
\* The channels after a node that was given the channels' dict, mutated it in
\* place and returned it as ret: agent_thoughts is
\* operator.add(channel list, returned list), and both are the list the node
\* appended to; every other key is a plain last-value channel.
WriteChannels(ret) ==
    [ret EXCEPT !.agent_thoughts = ret.agent_thoughts \o ret.agent_thoughts]

\* The channels after a conditional edge ran on the dict read from chan:
\* the edge's dict is dropped
AfterBranch(chan, edge) == chan

\* The channels after a node raised: nothing is written, but the list held by
\* the agent_thoughts channel has the entries the node appended in place
AfterRaise(chan, local) ==
    [chan EXCEPT !.agent_thoughts = local.agent_thoughts]

\* dict.get(key, default)
Get(d, key, default) == IF key \in DOMAIN d THEN d[key] ELSE default

(***************************************************************************)
(* run_query.                                                              *)
(***************************************************************************)
initial_state(query) ==
    [query              |-> query,
     query_type         |-> None,
     requires_retrieval |-> TRUE,
     retrieved_docs     |-> <<>>,
     agent_thoughts     |-> <<>>,
     iteration          |-> 1,
     max_iterations     |-> settings.MAX_ITERATIONS,
     response           |-> None,
     citations          |-> <<>>,
     error              |-> None]

\* SemanticChunker(): chunk_size and chunk_overlap default to the settings'
\* CHUNK_SIZE and CHUNK_OVERLAP, and these to 512 and 50
DefaultChunker == [chunk_size |-> 512, chunk_overlap |-> 50]

\* No concurrent call is under way
ConcurrencyIdle ==
    /\ threads = <<>>
    /\ channels = <<>>
    /\ callers = <<>>
    /\ _chroma_manager = None
    /\ constructed = 0

\* The collection holds nothing and nothing was added or cited
EmptyIndex ==
    /\ collection = <<>>
    /\ handed = <<>>
    /\ ingest_exc = None
    /\ cited = <<>>
    /\ all_documents = <<>>
    /\ pdf_files = <<>>

\* No document is being ingested
IngestionIdle ==
    /\ chunker = DefaultChunker
    /\ doc_elements = <<>>
    /\ doc_chunks = <<>>
    /\ doc_filename = <<>>
    /\ all_metadatas = <<>>
    /\ ingest_pc = "idle"
    /\ EmptyIndex

Settings ==
    [MAX_ITERATIONS  : 1..MaxIterationsBound,
     TOP_K_RETRIEVAL : 1..MaxTopKRetrieval,
     TOP_K_FINAL     : 1..MaxTopKFinal]

Init ==
    /\ settings \in Settings
    /\ \E query \in Queries : state = initial_state(query)
    /\ pc = "router"
    /\ steps = 0
    /\ calls = <<>>
    /\ runs = 0
    /\ exc = None
    /\ result = [pending |-> TRUE]
    /\ classified = {}
    /\ nroutes = 0
    /\ candidates = <<>>
    /\ IngestionIdle
    /\ ConcurrencyIdle

\* run_query's result for the final state s
ResultOf(s) ==
    [query               |-> s.query,
     response            |-> Get(s, "response", "No response generated"),
     citations           |-> Get(s, "citations", <<>>),
     query_type          |-> Get(s, "query_type", None),
     documents_retrieved |-> Len(Get(s, "retrieved_docs", <<>>)),
     iterations          |-> Get(s, "iteration", 0),
     agent_thoughts      |-> Get(s, "agent_thoughts", <<>>)]

\* run_query's result when invoke() raised e
ErrorResultOf(query, e) ==
    [query     |-> query,
     response  |-> "Error processing query",
     citations |-> <<>>,
     error     |-> e]

\* The router node and the conditional edge should_retrieve
RouterNode ==
    /\ pc = "router"
    /\ LET chan == WriteChannels(router_node(state))
           edge == should_retrieve(chan)
       IN  /\ state' = AfterBranch(chan, edge)
           /\ pc' = edge.next
    /\ steps' = steps + 1
    /\ UNCHANGED <<settings, calls, runs, exc, result, classified, nroutes, ingestion, concurrency, candidates>>

\* The answers of the index that matter to a run of the node on s: it searches
\* only when s holds no documents
SearchAnswers(s) ==
    IF s.retrieved_docs = <<>> THEN SearchResults(settings.TOP_K_RETRIEVAL) ELSE {<<>>}

SearchFailures(s) ==
    IF s.retrieved_docs = <<>> THEN BOOLEAN ELSE {FALSE}

\* The retrieval node and the conditional edge should_continue
RetrievalNode ==
    /\ pc = "retrieval"
    /\ steps < RecursionLimit
    /\ \E retrieved \in SearchAnswers(state), retrieve_fails \in SearchFailures(state),
          llm \in LlmAnswers, llm_fails \in BOOLEAN :
         LET p == process(state, retrieved, retrieve_fails, llm, llm_fails)
         IN  /\ calls' = calls \o p.calls
             /\ exc' = p.raised
             /\ IF p.raised # None
                THEN /\ state' = AfterRaise(state, p.state)
                     /\ pc' = "raised"
                ELSE LET chan == WriteChannels(p.state)
                         edge == should_continue(chan)
                     IN  /\ state' = AfterBranch(chan, edge)
                         /\ pc' = edge.next
    /\ steps' = steps + 1
    /\ runs' = runs + 1
    /\ UNCHANGED <<settings, result, classified, nroutes, ingestion, concurrency, candidates>>

\* app.invoke: the graph is out of steps before it reached END
RecursionError ==
    /\ pc = "retrieval"
    /\ steps >= RecursionLimit
    /\ pc' = "raised"
    /\ exc' = "GraphRecursionError"
    /\ UNCHANGED <<settings, state, steps, calls, runs, result, classified, nroutes, ingestion, concurrency, candidates>>

\* run_query, after app.invoke returned final_state
ReturnResult ==
    /\ pc = "end"
    /\ result' = ResultOf(state)
    /\ pc' = "returned"
    /\ UNCHANGED <<settings, state, steps, calls, runs, exc, classified, nroutes, ingestion, concurrency, candidates>>

\* run_query, `except Exception as e`
ReturnError ==
    /\ pc = "raised"
    /\ result' = ErrorResultOf(state.query, exc)
    /\ pc' = "returned"
    /\ UNCHANGED <<settings, state, steps, calls, runs, exc, classified, nroutes, ingestion, concurrency, candidates>>

Next ==
    \/ RouterNode
    \/ RetrievalNode
    \/ RecursionError
    \/ ReturnResult
    \/ ReturnError

Spec == Init /\ [][Next]_vars

(***************************************************************************)
(* SpecRoute: router_node called for one query after another, each call on *)
(* the fresh AgentState of a new run.  classified collects what the calls  *)
(* answered.                                                               *)
(***************************************************************************)
DefaultSettings == [MAX_ITERATIONS |-> 3, TOP_K_RETRIEVAL |-> 10, TOP_K_FINAL |-> 3]

InitRoute ==
    /\ settings = DefaultSettings
    /\ state = initial_state(<<>>)
    /\ pc = "router"
    /\ steps = 0
    /\ calls = <<>>
    /\ runs = 0
    /\ exc = None
    /\ result = [pending |-> TRUE]
    /\ classified = {}
    /\ nroutes = 0
    /\ candidates = <<>>
    /\ IngestionIdle
    /\ ConcurrencyIdle

RouteQuery ==
    /\ nroutes < MaxClassifications
    /\ \E query \in Queries :
         LET s == router_node(initial_state(query))
         IN  /\ state' = s
             /\ classified' = classified \cup
                    {[query              |-> query,
                      query_type         |-> s.query_type,
                      requires_retrieval |-> s.requires_retrieval]}
    /\ nroutes' = nroutes + 1
    /\ UNCHANGED <<settings, pc, steps, calls, runs, exc, result, ingestion, concurrency, candidates>>

NextRoute == RouteQuery

SpecRoute == InitRoute /\ [][NextRoute]_vars

(***************************************************************************)
(* SemanticChunker (src/ingestion/chunker.py).  self is the chunker:       *)
(* [chunk_size, chunk_overlap].                                            *)
(***************************************************************************)
\* \s, for the characters of the model's texts
WhiteSpace == {" "}
\* [.!?]
SentenceEnd == {".", "!", "?"}
\* [A-Z]
IsUpper(c) == \E i \in 1..Len(UpperCase) : UpperCase[i] = c

\* The last character of the run of whitespace that starts at t[i]
RECURSIVE RunEnd(_, _)
RunEnd(t, i) ==
    IF i < Len(t) /\ t[i + 1] \in WhiteSpace THEN RunEnd(t, i + 1) ELSE i

\* (?<=[.!?])\s+(?=[A-Z]) matches at t[i]: t[i] starts a run of whitespace
\* that follows a '.', '!' or '?' and is followed by an upper-case letter
SentenceBreak(t, i) ==
    /\ i > 1
    /\ t[i - 1] \in SentenceEnd
    /\ t[i] \in WhiteSpace
    /\ RunEnd(t, i) < Len(t)
    /\ IsUpper(t[RunEnd(t, i) + 1])

\* re.split(pattern, text) from t[i] on; part is the piece read so far
RECURSIVE Split(_, _, _)
Split(t, i, part) ==
    IF i > Len(t) THEN <<part>>
    ELSE IF SentenceBreak(t, i) THEN <<part>> \o Split(t, RunEnd(t, i) + 1, <<>>)
    ELSE Split(t, i + 1, Append(part, t[i]))

\* str.strip()
RECURSIVE LStrip(_)
LStrip(s) == IF s # <<>> /\ Head(s) \in WhiteSpace THEN LStrip(Tail(s)) ELSE s

RECURSIVE RStrip(_)
RStrip(s) ==
    IF s # <<>> /\ s[Len(s)] \in WhiteSpace THEN RStrip(SubSeq(s, 1, Len(s) - 1)) ELSE s

Strip(s) == RStrip(LStrip(s))

\* (_split_sentences keeping the pieces that are empty once stripped)
_split_sentences_Unfiltered(text) ==
    LET sentences == Split(text, 1, <<>>)
    IN  [i \in 1..Len(sentences) |-> Strip(sentences[i])]

_split_sentences(text) ==
    LET sentences == Split(text, 1, <<>>)
        stripped  == [i \in 1..Len(sentences) |-> Strip(sentences[i])]
    IN  SelectSeq(stripped, LAMBDA s : s # <<>>)

\* sep.join(strs)
RECURSIVE Join(_, _)
Join(sep, strs) ==
    IF strs = <<>> THEN <<>>
    ELSE IF Len(strs) = 1 THEN strs[1]
    ELSE strs[1] \o sep \o Join(sep, Tail(strs))

\* sum(len(s) for s in strs)
RECURSIVE TotalLen(_)
TotalLen(strs) == IF strs = <<>> THEN 0 ELSE Len(Head(strs)) + TotalLen(Tail(strs))

\* (the overlap loop with `<` for `<=`)
RECURSIVE Overlap_Strict(_, _, _, _)
Overlap_Strict(self, current_chunk, overlap_sentences, overlap_length) ==
    IF current_chunk = <<>> THEN overlap_sentences
    ELSE LET s    == current_chunk[Len(current_chunk)]
             rest == SubSeq(current_chunk, 1, Len(current_chunk) - 1)
         IN  IF overlap_length + Len(s) < self.chunk_overlap
             THEN Overlap_Strict(self, rest, <<s>> \o overlap_sentences,
                                 overlap_length + Len(s))
             ELSE overlap_sentences

\* (the overlap loop with `continue` for `break`)
RECURSIVE Overlap_Skipping(_, _, _, _)
Overlap_Skipping(self, current_chunk, overlap_sentences, overlap_length) ==
    IF current_chunk = <<>> THEN overlap_sentences
    ELSE LET s    == current_chunk[Len(current_chunk)]
             rest == SubSeq(current_chunk, 1, Len(current_chunk) - 1)
         IN  IF overlap_length + Len(s) <= self.chunk_overlap
             THEN Overlap_Skipping(self, rest, <<s>> \o overlap_sentences,
                                   overlap_length + Len(s))
             ELSE Overlap_Skipping(self, rest, overlap_sentences, overlap_length)

\* `for s in reversed(current_chunk)`: the sentences taken from the end of
\* current_chunk, up to the first one that would take them over chunk_overlap
RECURSIVE Overlap(_, _, _, _)
Overlap(self, current_chunk, overlap_sentences, overlap_length) ==
    IF current_chunk = <<>> THEN overlap_sentences
    ELSE LET s    == current_chunk[Len(current_chunk)]
             rest == SubSeq(current_chunk, 1, Len(current_chunk) - 1)
         IN  IF overlap_length + Len(s) <= self.chunk_overlap
             THEN Overlap(self, rest, <<s>> \o overlap_sentences, overlap_length + Len(s))
             ELSE overlap_sentences

\* One round of `for sentence in sentences`.  A chunk is kept as its list of
\* sentences and the number of them that are its overlap; st is the loop's
\* chunks, current_chunk, current_length and the overlap of current_chunk.
PackSentence(self, st, sentence) ==
    LET sentence_length == Len(sentence)
        full == /\ st.current_length + sentence_length > self.chunk_size
                /\ st.current_chunk # <<>>
        overlap_sentences == Overlap(self, st.current_chunk, <<>>, 0)
        st1 == IF full
               THEN [chunks         |-> Append(st.chunks,
                                               [sentences |-> st.current_chunk,
                                                overlap   |-> st.overlap]),
                     current_chunk  |-> overlap_sentences,
                     current_length |-> TotalLen(overlap_sentences),
                     overlap        |-> Len(overlap_sentences)]
               ELSE st
    IN  [st1 EXCEPT !.current_chunk  = Append(@, sentence),
                    !.current_length = @ + sentence_length]

RECURSIVE PackFrom(_, _, _, _)
PackFrom(self, sentences, i, st) ==
    IF i > Len(sentences) THEN st
    ELSE PackFrom(self, sentences, i + 1, PackSentence(self, st, sentences[i]))

\* The chunks _chunk_text builds from the sentences, before they are joined
PackSentences(self, sentences) ==
    LET st == PackFrom(self, sentences, 1,
                       [chunks |-> <<>>, current_chunk |-> <<>>,
                        current_length |-> 0, overlap |-> 0])
    IN  IF st.current_chunk # <<>>
        THEN Append(st.chunks, [sentences |-> st.current_chunk, overlap |-> st.overlap])
        ELSE st.chunks

_chunk_text(self, text) ==
    LET sentences == _split_sentences(text)
    IN  IF sentences = <<>> THEN <<>>
        ELSE LET packed == PackSentences(self, sentences)
             IN  [i \in 1..Len(packed) |-> Join(<<" ">>, packed[i].sentences)]

\* (one round of `for element in elements` that chunks a table as text)
ElementChunks_SplittingTables(self, element) ==
    LET text_chunks == _chunk_text(self, element.text)
    IN  [i \in 1..Len(text_chunks) |->
            [text              |-> text_chunks[i],
             element_type      |-> element.type,
             is_table          |-> Get(element, "is_table", FALSE),
             original_metadata |-> Get(element, "metadata", <<>>)]]

\* One round of `for element in elements`: the chunks it appends
ElementChunks(self, element) ==
    IF Get(element, "is_table", FALSE)
    THEN << [text              |-> element.text,
             element_type      |-> element.type,
             is_table          |-> TRUE,
             original_metadata |-> Get(element, "metadata", <<>>)] >>
    ELSE LET text_chunks == _chunk_text(self, element.text)
         IN  [i \in 1..Len(text_chunks) |->
                 [text              |-> text_chunks[i],
                  element_type      |-> element.type,
                  is_table          |-> FALSE,
                  original_metadata |-> Get(element, "metadata", <<>>)]]

RECURSIVE chunk_elements(_, _)
chunk_elements(self, elements) ==
    IF elements = <<>> THEN <<>>
    ELSE ElementChunks(self, Head(elements)) \o chunk_elements(self, Tail(elements))

(***************************************************************************)
(* SpecChunk: chunk_elements applied to the elements of one document.      *)
(* A text is at most MaxPieces pieces put end to end; an element's         *)
(* page_number is its place in the document.                               *)
(***************************************************************************)
Pieces ==
    {<<" ", "A", "!">>,
     <<" ", "C", "c", "?">>,
     <<" ", "d", ".">>,
     <<" ">>}

RECURSIVE TextsOf(_)
TextsOf(n) ==
    IF n = 0 THEN {<<>>}
    ELSE LET shorter == TextsOf(n - 1)
         IN  shorter \cup { t \o p : t \in shorter, p \in Pieces }

Texts == TextsOf(MaxPieces)

\* An element as DocumentLoader.load_pdf builds it
Element(text, is_table, page) ==
    [text     |-> text,
     type     |-> IF is_table THEN "table" ELSE "text",
     metadata |-> [page_number |-> page],
     is_table |-> is_table]

NeighbourText == <<"C", "c", "?", " ", "A", "!">>

ElementLists ==
    {<<>>}
    \cup { <<Element(text, FALSE, 1)>> : text \in Texts }
    \cup { <<Element(text, TRUE, 1)>> : text \in Texts }
    \cup { <<Element(NeighbourText, FALSE, 1), Element(text, TRUE, 2),
             Element(text, FALSE, 3)>> : text \in Texts }

Chunkers == [chunk_size : 1..MaxChunkSize, chunk_overlap : 0..MaxChunkOverlap]

\* The variables of run_query, before any run
NoQuery ==
    /\ settings = DefaultSettings
    /\ state = initial_state(<<>>)
    /\ pc = "router"
    /\ steps = 0
    /\ calls = <<>>
    /\ runs = 0
    /\ exc = None
    /\ result = [pending |-> TRUE]
    /\ classified = {}
    /\ nroutes = 0
    /\ candidates = <<>>

InitChunk ==
    /\ NoQuery
    /\ ConcurrencyIdle
    /\ chunker \in Chunkers
    /\ doc_elements \in ElementLists
    /\ doc_chunks = <<>>
    /\ doc_filename = <<>>
    /\ all_metadatas = <<>>
    /\ ingest_pc = "loaded"
    /\ EmptyIndex

\* chunk_documents: `chunks = chunker.chunk_elements(elements)`
ChunkElements ==
    /\ ingest_pc = "loaded"
    /\ doc_chunks' = chunk_elements(chunker, doc_elements)
    /\ ingest_pc' = "chunked"
    /\ UNCHANGED <<settings, state, pc, steps, calls, runs, exc, result, classified,
                   nroutes, chunker, doc_elements, doc_filename, all_metadatas,
                   collection, handed, ingest_exc, cited, all_documents, pdf_files,
                   concurrency, candidates>>

NextChunk == ChunkElements

SpecChunk == InitChunk /\ [][NextChunk]_vars

(***************************************************************************)
(* MetadataExtractor (src/ingestion/metadata_extractor.py).                *)
(***************************************************************************)
\* 'general'
GENERAL_CATEGORY == <<"g", "e", "n", "e", "r", "a", "l">>

\* MetadataExtractor.__init__: the categories and their keywords, in the
\* order of the dict
MetadataExtractor ==
    [compliance_keywords |->
        <<[category |-> <<"A", "M", "L">>,
          keywords |-> <<<<"a", "n", "t", "i", "-", "m", "o", "n", "e", "y", " ", "l", "a", "u", "n", "d", "e", "r", "i", "n", "g">>,
                        <<"a", "m", "l">>,
                        <<"s", "u", "s", "p", "i", "c", "i", "o", "u", "s", " ", "a", "c", "t", "i", "v", "i", "t", "y">>,
                        <<"c", "u", "s", "t", "o", "m", "e", "r", " ", "d", "u", "e", " ", "d", "i", "l", "i", "g", "e", "n", "c", "e">>>>],
         [category |-> <<"K", "Y", "C">>,
          keywords |-> <<<<"k", "n", "o", "w", " ", "y", "o", "u", "r", " ", "c", "u", "s", "t", "o", "m", "e", "r">>,
                        <<"k", "y", "c">>,
                        <<"c", "u", "s", "t", "o", "m", "e", "r", " ", "i", "d", "e", "n", "t", "i", "f", "i", "c", "a", "t", "i", "o", "n">>,
                        <<"i", "d", "e", "n", "t", "i", "t", "y", " ", "v", "e", "r", "i", "f", "i", "c", "a", "t", "i", "o", "n">>>>],
         [category |-> <<"B", "a", "s", "e", "l", "_", "I", "I", "I">>,
          keywords |-> <<<<"b", "a", "s", "e", "l">>,
                        <<"c", "a", "p", "i", "t", "a", "l", " ", "a", "d", "e", "q", "u", "a", "c", "y">>,
                        <<"l", "e", "v", "e", "r", "a", "g", "e", " ", "r", "a", "t", "i", "o">>,
                        <<"l", "i", "q", "u", "i", "d", "i", "t", "y", " ", "c", "o", "v", "e", "r", "a", "g", "e">>>>],
         [category |-> <<"G", "D", "P", "R">>,
          keywords |-> <<<<"g", "d", "p", "r">>,
                        <<"d", "a", "t", "a", " ", "p", "r", "o", "t", "e", "c", "t", "i", "o", "n">>,
                        <<"p", "r", "i", "v", "a", "c", "y">>,
                        <<"p", "e", "r", "s", "o", "n", "a", "l", " ", "d", "a", "t", "a">>>>],
         [category |-> <<"S", "O", "X">>,
          keywords |-> <<<<"s", "a", "r", "b", "a", "n", "e", "s", "-", "o", "x", "l", "e", "y">>,
                        <<"s", "o", "x">>,
                        <<"i", "n", "t", "e", "r", "n", "a", "l", " ", "c", "o", "n", "t", "r", "o", "l", "s">>,
                        <<"f", "i", "n", "a", "n", "c", "i", "a", "l", " ", "r", "e", "p", "o", "r", "t", "i", "n", "g">>>>],
         [category |-> <<"F", "C", "R", "A">>,
          keywords |-> <<<<"f", "a", "i", "r", " ", "c", "r", "e", "d", "i", "t", " ", "r", "e", "p", "o", "r", "t", "i", "n", "g">>,
                        <<"f", "c", "r", "a">>,
                        <<"c", "r", "e", "d", "i", "t", " ", "r", "e", "p", "o", "r", "t">>,
                        <<"c", "o", "n", "s", "u", "m", "e", "r", " ", "r", "e", "p", "o", "r", "t", "i", "n", "g">>>>],
         [category |-> <<"T", "I", "L", "A">>,
          keywords |-> <<<<"t", "r", "u", "t", "h", " ", "i", "n", " ", "l", "e", "n", "d", "i", "n", "g">>,
                        <<"t", "i", "l", "a">>,
                        <<"a", "p", "r">>,
                        <<"f", "i", "n", "a", "n", "c", "e", " ", "c", "h", "a", "r", "g", "e">>>>],
         [category |-> <<"R", "E", "S", "P", "A">>,
          keywords |-> <<<<"r", "e", "s", "p", "a">>,
                        <<"r", "e", "a", "l", " ", "e", "s", "t", "a", "t", "e", " ", "s", "e", "t", "t", "l", "e", "m", "e", "n", "t">>,
                        <<"c", "l", "o", "s", "i", "n", "g", " ", "d", "i", "s", "c", "l", "o", "s", "u", "r", "e">>,
                        <<"l", "o", "a", "n", " ", "e", "s", "t", "i", "m", "a", "t", "e">>>>]>>]

\* (_identify_document_type testing compliance_report before audit_document)
_identify_document_type_ComplianceFirst(filename, text) ==
    LET filename_lower == Lower(filename)
        text_lower     == Lower(text)
    IN
        IF \/ Contains(<<"r", "e", "g", "u", "l", "a", "t", "i", "o", "n">>, filename_lower)
              \/ Contains(<<"c", "f", "r">>, text_lower)
        THEN "regulation"
        ELSE         IF \/ Contains(<<"p", "o", "l", "i", "c", "y">>, filename_lower)
              \/ Contains(<<"p", "o", "l", "i", "c", "y">>, text_lower)
        THEN "policy"
        ELSE         IF \/ Contains(<<"g", "u", "i", "d", "e", "l", "i", "n", "e">>, filename_lower)
              \/ Contains(<<"g", "u", "i", "d", "a", "n", "c", "e">>, text_lower)
        THEN "guideline"
        ELSE         IF \/ Contains(<<"c", "o", "m", "p", "l", "i", "a", "n", "c", "e">>, filename_lower)
              \/ Contains(<<"c", "o", "m", "p", "l", "i", "a", "n", "c", "e", " ", "r", "e", "p", "o", "r", "t">>, text_lower)
        THEN "compliance_report"
        ELSE         IF \/ Contains(<<"a", "u", "d", "i", "t">>, filename_lower)
              \/ Contains(<<"a", "u", "d", "i", "t">>, text_lower)
        THEN "audit_document"
        ELSE "general"

_identify_document_type(filename, text) ==
    LET filename_lower == Lower(filename)
        text_lower     == Lower(text)
    IN
        IF \/ Contains(<<"r", "e", "g", "u", "l", "a", "t", "i", "o", "n">>, filename_lower)
              \/ Contains(<<"c", "f", "r">>, text_lower)
        THEN "regulation"
        ELSE         IF \/ Contains(<<"p", "o", "l", "i", "c", "y">>, filename_lower)
              \/ Contains(<<"p", "o", "l", "i", "c", "y">>, text_lower)
        THEN "policy"
        ELSE         IF \/ Contains(<<"g", "u", "i", "d", "e", "l", "i", "n", "e">>, filename_lower)
              \/ Contains(<<"g", "u", "i", "d", "a", "n", "c", "e">>, text_lower)
        THEN "guideline"
        ELSE         IF \/ Contains(<<"a", "u", "d", "i", "t">>, filename_lower)
              \/ Contains(<<"a", "u", "d", "i", "t">>, text_lower)
        THEN "audit_document"
        ELSE         IF \/ Contains(<<"c", "o", "m", "p", "l", "i", "a", "n", "c", "e">>, filename_lower)
              \/ Contains(<<"c", "o", "m", "p", "l", "i", "a", "n", "c", "e", " ", "r", "e", "p", "o", "r", "t">>, text_lower)
        THEN "compliance_report"
        ELSE "general"

\* (the keyword loop without its break: the category is appended for every
\* keyword of it that occurs)
_identify_compliance_categories_NoBreak(self, text) ==
    LET text_lower == Lower(text)
        Hits(e) == SelectSeq(e.keywords, LAMBDA keyword : Contains(keyword, text_lower))
        table   == self.compliance_keywords
        flat[n \in 0..Len(table)] ==
            IF n = 0 THEN <<>>
            ELSE flat[n - 1] \o [j \in 1..Len(Hits(table[n])) |-> table[n].category]
        categories == flat[Len(table)]
    IN  IF categories # <<>> THEN categories ELSE <<GENERAL_CATEGORY>>

_identify_compliance_categories(self, text) ==
    LET text_lower == Lower(text)
        matched    == SelectSeq(self.compliance_keywords,
                                LAMBDA e : AnyKeywordIn(e.keywords, text_lower))
        categories == [i \in 1..Len(matched) |-> matched[i].category]
    IN  IF categories # <<>> THEN categories ELSE <<GENERAL_CATEGORY>>

\* text[:100]
SECTION_CHARS == 100

\* _extract_section, for texts without "Section", "Article" or "Chapter"
\* followed by a number, as the texts of the model are
_extract_section(text, element_metadata) ==
    IF Get(element_metadata, "type", None) \in {"Title", "Header"}
    THEN SubSeq(text, 1, Min(SECTION_CHARS, Len(text)))
    ELSE "unknown"

\* (the categories joined with ', ')
JoinCategories_Spaced(categories) == Join(<<",", " ">>, categories)

\* ','.join(categories)
JoinCategories(categories) == Join(<<",">>, categories)

\* extract_metadata, without the timestamp (the wall clock); the texts of the
\* model hold no date, so that no mentioned_dates is stored
extract_metadata(self, text, element_metadata, filename, chunk_index) ==
    LET categories == _identify_compliance_categories(self, text)
        metadata ==
            [filename              |-> filename,
             chunk_index           |-> chunk_index,
             chunk_length          |-> Len(text),
             doc_type              |-> _identify_document_type(filename, text),
             compliance_categories |->
                 IF categories # <<>>
                 THEN JoinCategories(categories)
                 ELSE GENERAL_CATEGORY,
             section               |-> _extract_section(text, element_metadata)]
    IN  IF "page_number" \in DOMAIN element_metadata
        THEN metadata @@ [page_number |-> element_metadata.page_number]
        ELSE metadata

(***************************************************************************)
(* SpecMeta: step 3 of ingest_documents on the chunks of one document.  A  *)
(* chunk's text is at most MaxTextFragments fragments put end to end.      *)
(***************************************************************************)
TextFragments ==
    {<<"A", "M", "L", " ">>,
     <<"K", "Y", "C", " ", "(", "k", "n", "o", "w", " ", "y", "o", "u", "r", " ", "c", "u", "s", "t", "o", "m", "e", "r", ")", " ">>,
     <<"A", "p", "r", "i", "l", " ">>,
     <<"C", "F", "R", " ">>,
     <<"P", "o", "l", "i", "c", "y", " ">>,
     <<"g", "u", "i", "d", "a", "n", "c", "e", " ">>,
     <<"g", "u", "i", "d", "e", "l", "i", "n", "e", " ">>,
     <<"A", "u", "d", "i", "t", " ">>,
     <<"c", "o", "m", "p", "l", "i", "a", "n", "c", "e", " ", "r", "e", "p", "o", "r", "t", " ">>,
     <<"c", "o", "m", "p", "l", "i", "a", "n", "c", "e", " ">>,
     <<"r", "e", "g", "u", "l", "a", "t", "i", "o", "n", " ">>}

RECURSIVE FragmentTexts(_)
FragmentTexts(n) ==
    IF n = 0 THEN {<<>>}
    ELSE LET shorter == FragmentTexts(n - 1)
         IN  shorter \cup { t \o f : t \in shorter, f \in TextFragments }

Filenames ==
    {<<"R", "e", "g", "u", "l", "a", "t", "i", "o", "n", ".", "p", "d", "f">>,
     <<"p", "o", "l", "i", "c", "y", ".", "p", "d", "f">>,
     <<"G", "u", "i", "d", "e", "l", "i", "n", "e", ".", "p", "d", "f">>,
     <<"a", "u", "d", "i", "t", ".", "p", "d", "f">>,
     <<"c", "o", "m", "p", "l", "i", "a", "n", "c", "e", ".", "p", "d", "f">>,
     <<"n", "o", "t", "e", "s", ".", "p", "d", "f">>,
     <<"a", "u", "d", "i", "t", "_", "p", "o", "l", "i", "c", "y", ".", "p", "d", "f">>}

\* A chunk as chunk_elements emits it for a text element
TextChunk(text) ==
    [text              |-> text,
     element_type      |-> "text",
     is_table          |-> FALSE,
     original_metadata |-> [page_number |-> 1]]

InitMeta ==
    /\ NoQuery
    /\ ConcurrencyIdle
    /\ chunker = DefaultChunker
    /\ doc_elements = <<>>
    /\ \E text \in FragmentTexts(MaxTextFragments) : doc_chunks = <<TextChunk(text)>>
    /\ doc_filename \in Filenames
    /\ all_metadatas = <<>>
    /\ ingest_pc = "chunked"
    /\ EmptyIndex

\* ingest_documents, step 3: `for idx, chunk in enumerate(chunks)`
ExtractMetadata ==
    /\ ingest_pc = "chunked"
    /\ all_metadatas' =
           [i \in 1..Len(doc_chunks) |->
               LET chunk == doc_chunks[i]
                   metadata == extract_metadata(MetadataExtractor, chunk.text,
                                                Get(chunk, "original_metadata", <<>>),
                                                doc_filename, i - 1)
               IN  [element_type |-> Get(chunk, "element_type", "unknown"),
                    is_table     |-> Get(chunk, "is_table", FALSE)] @@ metadata]
    /\ ingest_pc' = "extracted"
    /\ UNCHANGED <<settings, state, pc, steps, calls, runs, exc, result, classified,
                   nroutes, chunker, doc_elements, doc_chunks, doc_filename,
                   collection, handed, ingest_exc, cited, all_documents, pdf_files,
                   concurrency, candidates>>

\* f"chunk_{chunk_id}"
ChunkId(chunk_id) == <<"chunk_", chunk_id>>

\* The ids the collection holds
StoredIds(coll) == { coll[i].id : i \in 1..Len(coll) }

\* collection.add(documents, embeddings, metadatas, ids) of Chroma, on the
\* records zipped from its arguments: ids repeated within the call are
\* refused; for ids the collection already holds, the call either raises and
\* adds nothing, or adds the other records only (tolerant), as the installed
\* chromadb does
CollectionAdd(coll, records, tolerant) ==
    LET fresh == SelectSeq(records, LAMBDA r : r.id \notin StoredIds(coll))
    IN  IF \E a, b \in 1..Len(records) : a # b /\ records[a].id = records[b].id
        THEN [collection |-> coll, raised |-> "DuplicateIDError"]
        ELSE IF fresh = records
        THEN [collection |-> coll \o records, raised |-> None]
        ELSE IF tolerant
        THEN [collection |-> coll \o fresh, raised |-> None]
        ELSE [collection |-> coll, raised |-> "IDAlreadyExistsError"]

\* `batch_size = 100`
BATCH_SIZE == 100

\* `for i in range(0, len(texts), batch_size)`, from the record after the
\* i-th on
RECURSIVE AddBatches(_, _, _, _)
AddBatches(coll, records, i, tolerant) ==
    IF i >= Len(records) THEN [collection |-> coll, raised |-> None]
    ELSE LET end_idx == Min(i + BATCH_SIZE, Len(records))
             added   == CollectionAdd(coll, SubSeq(records, i + 1, end_idx), tolerant)
         IN  IF added.raised # None THEN added
             ELSE AddBatches(added.collection, records, end_idx, tolerant)

\* ChromaManager.add_documents
add_documents(coll, texts, metadatas, ids, tolerant) ==
    IF texts = <<>> THEN [collection |-> coll, raised |-> None]
    ELSE AddBatches(coll,
                    [i \in 1..Len(texts) |->
                        [id |-> ids[i], document |-> texts[i], metadata |-> metadatas[i]]],
                    0, tolerant)

\* ChromaManager.similarity_search, when the collection answers with its
\* first n_results records
similarity_search(coll, n_results) ==
    [i \in 1..Min(n_results, Len(coll)) |->
        [text     |-> coll[i].document,
         metadata |-> coll[i].metadata,
         distance |-> 0,
         id       |-> coll[i].id]]

\* ingest_documents, step 5: `chroma_manager.add_documents(...)`
AddDocuments ==
    /\ ingest_pc = "extracted"
    /\ \E tolerant \in BOOLEAN :
         LET all_texts == [i \in 1..Len(doc_chunks) |-> doc_chunks[i].text]
             all_ids   == [i \in 1..Len(doc_chunks) |-> ChunkId(i - 1)]
             added     == add_documents(collection, all_texts, all_metadatas, all_ids,
                                        tolerant)
         IN  /\ collection' = added.collection
             /\ ingest_exc' = added.raised
             /\ handed' = Append(handed, all_ids)
    /\ ingest_pc' = "stored"
    /\ UNCHANGED <<settings, state, pc, steps, calls, runs, exc, result, classified,
                   nroutes, chunker, doc_elements, doc_chunks, doc_filename,
                   all_metadatas, cited, all_documents, pdf_files,
                   concurrency, candidates>>

\* A later query: retrieve_documents, then generate_response on what it returned
CiteStored ==
    /\ ingest_pc = "stored"
    /\ LET documents == similarity_search(collection, settings.TOP_K_RETRIEVAL)
       IN  cited' = generate_response(<<>>, documents, "general", "answer").citations
    /\ ingest_pc' = "cited"
    /\ UNCHANGED <<settings, state, pc, steps, calls, runs, exc, result, classified,
                   nroutes, chunker, doc_elements, doc_chunks, doc_filename,
                   all_metadatas, collection, handed, ingest_exc, all_documents, pdf_files,
                   concurrency, candidates>>

NextMeta ==
    \/ ExtractMetadata
    \/ AddDocuments
    \/ CiteStored

SpecMeta == InitMeta /\ [][NextMeta]_vars

(***************************************************************************)
(* SpecRerank: one run of the retrieval node on a state that holds no      *)
(* document, for every list of candidates retrieve_documents may hand      *)
(* back: at most TOP_K_RETRIEVAL documents, each with a distance or, as    *)
(* rerank_documents allows for, without one.                               *)
(***************************************************************************)
\* Candidate i at the given distance, or without the key
Candidate(i, has_distance, distance) ==
    IF ~has_distance
    THEN [id |-> i, text |-> i,
          metadata |-> [filename |-> i, chunk_index |-> 0,
                        compliance_categories |-> <<>>]]
    ELSE [id |-> i, text |-> i, distance |-> distance,
          metadata |-> [filename |-> i, chunk_index |-> 0,
                        compliance_categories |-> <<>>]]

\* The candidate lists of at most k documents
CandidateLists(k) ==
    UNION { { [i \in 1..n |-> Candidate(i, f[i] # 2, IF f[i] = 3 THEN 1000 ELSE f[i])] :
                f \in [1..n -> 0..3] } : n \in 0..k }

InitRerank ==
    /\ settings \in Settings
    /\ state = WriteChannels(router_node(initial_state(<<"t", "a", "x">>)))
    /\ pc = "retrieval"
    /\ steps = 1
    /\ calls = <<>>
    /\ runs = 0
    /\ exc = None
    /\ result = [pending |-> TRUE]
    /\ classified = {}
    /\ nroutes = 0
    /\ candidates = <<>>
    /\ IngestionIdle
    /\ ConcurrencyIdle

\* RetrievalAgent.process, retrieve_documents returning `retrieved`
RetrieveAndRerank ==
    /\ pc = "retrieval"
    /\ \E retrieved \in CandidateLists(settings.TOP_K_RETRIEVAL) :
         LET p == process(state, retrieved, FALSE, "answer", FALSE)
         IN  /\ candidates' = retrieved
             /\ state' = p.state
             /\ calls' = calls \o p.calls
    /\ pc' = "processed"
    /\ runs' = runs + 1
    /\ UNCHANGED <<settings, steps, exc, result, classified, nroutes, ingestion,
                   concurrency>>

NextRerank == RetrieveAndRerank

SpecRerank == InitRerank /\ [][NextRerank]_vars

(***************************************************************************)
(* SpecLoad: DocumentLoader.load_directory on a directory of PDF files.    *)
(* A file is its name, whether it can be opened and parsed, and its pages; *)
(* a page is the text extract_text() gives, or fails when it is read.      *)
(* Multimodal extraction is off (the default of DocumentLoader).           *)
(***************************************************************************)
MaxFiles == 3

TextPage    == [text |-> <<"T">>, fails |-> FALSE]
BlankPage   == [text |-> <<" ">>, fails |-> FALSE]
FailingPage == [text |-> <<>>, fails |-> TRUE]

\* The pages a file may have
PageLists ==
    {<<>>, <<TextPage>>, <<BlankPage, TextPage>>, <<TextPage, TextPage>>,
     <<TextPage, FailingPage>>, <<FailingPage, TextPage>>}

\* The files a directory may hold at position i: one that cannot be opened,
\* or one with some pages
FilesAt(i) ==
    {[name |-> i, readable |-> FALSE, pages |-> <<>>]}
        \cup { [name |-> i, readable |-> TRUE, pages |-> ps] : ps \in PageLists }

\* directory.glob("*.pdf"): at most MaxFiles files, their names distinct
Directories ==
    UNION { { d \in [1..n -> UNION { FilesAt(i) : i \in 1..n }] :
                \A i \in 1..n : d[i] \in FilesAt(i) } : n \in 0..MaxFiles }

\* The body of load_pdf's try block: the elements of the pages read before
\* page k, and whether reading raised
RECURSIVE ReadPages(_, _, _)
ReadPages(file, page_num, processed_elements) ==
    IF page_num >= Len(file.pages)
    THEN [elements |-> processed_elements, raised |-> None]
    ELSE LET page == file.pages[page_num + 1]
         IN  IF page.fails
             THEN [elements |-> processed_elements, raised |-> "Exception"]
             ELSE ReadPages(file, page_num + 1,
                      IF Strip(page.text) # <<>>
                      THEN Append(processed_elements,
                                  [text     |-> page.text,
                                   type     |-> "text",
                                   metadata |-> [page_number |-> page_num + 1,
                                                 filename    |-> file.name],
                                   is_table |-> FALSE])
                      ELSE processed_elements)

TryRead(file) ==
    IF ~file.readable
    THEN [elements |-> <<>>, raised |-> "Exception"]
    ELSE ReadPages(file, 0, <<>>)

\* (load_pdf without its `except Exception`: the failure leaves the method)
load_pdf_Unguarded(self, file) == TryRead(file)

\* load_pdf: the elements and what it raises; `except Exception: return []`
load_pdf(self, file) ==
    LET r == TryRead(file)
    IN  IF r.raised # None
        THEN [elements |-> <<>>, raised |-> None]
        ELSE r

InitLoad ==
    /\ NoQuery
    /\ ConcurrencyIdle
    /\ chunker = DefaultChunker
    /\ doc_elements = <<>>
    /\ doc_chunks = <<>>
    /\ doc_filename = <<>>
    /\ all_metadatas = <<>>
    /\ collection = <<>>
    /\ handed = <<>>
    /\ ingest_exc = None
    /\ cited = <<>>
    /\ pdf_files \in Directories
    /\ all_documents = <<>>
    /\ ingest_pc = "loading"

\* One turn of load_directory's loop: load_pdf on the next file, and its
\* elements stored under the file's name; an exception ends the loop
LoadPdf ==
    /\ ingest_pc = "loading"
    /\ Len(all_documents) < Len(pdf_files)
    /\ LET pdf_file == pdf_files[Len(all_documents) + 1]
           r == load_pdf([enable_multimodal |-> FALSE], pdf_file)
       IN  IF r.raised # None
           THEN /\ ingest_exc' = r.raised
                /\ ingest_pc' = "raised"
                /\ UNCHANGED all_documents
           ELSE /\ all_documents' = Append(all_documents,
                                           [filename |-> pdf_file.name,
                                            elements |-> r.elements])
                /\ UNCHANGED <<ingest_exc, ingest_pc>>
    /\ UNCHANGED <<settings, state, pc, steps, calls, runs, exc, result, classified,
                   nroutes, chunker, doc_elements, doc_chunks, doc_filename,
                   all_metadatas, collection, handed, cited, pdf_files, concurrency, candidates>>

\* load_directory: `return all_documents`
ReturnDocuments ==
    /\ ingest_pc = "loading"
    /\ Len(all_documents) = Len(pdf_files)
    /\ ingest_pc' = "loaded"
    /\ UNCHANGED <<settings, state, pc, steps, calls, runs, exc, result, classified,
                   nroutes, chunker, doc_elements, doc_chunks, doc_filename,
                   all_metadatas, collection, handed, ingest_exc, cited, all_documents,
                   pdf_files, concurrency, candidates>>

NextLoad == LoadPdf \/ ReturnDocuments

SpecLoad == InitLoad /\ [][NextLoad]_vars

(***************************************************************************)
(* SpecIngest: ingest_documents(source_path, reset=False) called again and *)
(* again on one collection.  Loading and chunking are taken as done: a     *)
(* call is given chunked_docs, the chunks of each of its files, a chunk    *)
(* being told apart by the call, the file and its place in the file.       *)
(***************************************************************************)
MaxIngestions == 3
MaxChunksPerFile == 2

\* The files of one call
IngestFiles == <<"a.pdf", "b.pdf">>

\* chunked_docs of the call-th call, file f having counts[f] chunks
ChunkedDocs(call, counts) ==
    [f \in 1..Len(IngestFiles) |->
        [filename |-> IngestFiles[f],
         chunks   |-> [idx \in 1..counts[f] |->
                          [text |-> <<call, IngestFiles[f], idx - 1>>]]]]

\* Step 3, `for filename, chunks in chunked_docs.items()`, from file f on:
\* all_texts, all_metadatas and all_ids, chunk_id running on across the files
RECURSIVE CollectChunks(_, _, _, _)
CollectChunks(chunked_docs, f, chunk_id, acc) ==
    IF f > Len(chunked_docs) THEN acc
    ELSE LET doc == chunked_docs[f]
             n   == Len(doc.chunks)
         IN  CollectChunks(chunked_docs, f + 1, chunk_id + n,
                 [all_texts     |-> acc.all_texts \o
                                        [idx \in 1..n |-> doc.chunks[idx].text],
                  all_metadatas |-> acc.all_metadatas \o
                                        [idx \in 1..n |-> [filename    |-> doc.filename,
                                                           chunk_index |-> idx - 1]],
                  all_ids       |-> acc.all_ids \o
                                        [idx \in 1..n |-> ChunkId(chunk_id + idx - 1)]])

\* `chunk_id = 0` and the empty lists before the loop
CollectAll(chunked_docs) ==
    CollectChunks(chunked_docs, 1, 0,
                  [all_texts |-> <<>>, all_metadatas |-> <<>>, all_ids |-> <<>>])

InitIngest ==
    /\ NoQuery
    /\ ConcurrencyIdle
    /\ IngestionIdle

\* One ingest_documents call without reset: steps 3 to 5
IngestDocuments ==
    /\ ingest_pc \in {"idle", "ingested"}
    /\ Len(handed) < MaxIngestions
    /\ \E counts \in [1..Len(IngestFiles) -> 0..MaxChunksPerFile], tolerant \in BOOLEAN :
         LET c     == CollectAll(ChunkedDocs(Len(handed) + 1, counts))
             added == add_documents(collection, c.all_texts, c.all_metadatas, c.all_ids,
                                    tolerant)
         IN  /\ collection' = added.collection
             /\ ingest_exc' = added.raised
             /\ handed' = Append(handed, c.all_ids)
    /\ ingest_pc' = "ingested"
    /\ UNCHANGED <<settings, state, pc, steps, calls, runs, exc, result, classified,
                   nroutes, candidates, chunker, doc_elements, doc_chunks, doc_filename,
                   all_metadatas, cited, all_documents, pdf_files, concurrency>>

NextIngest == IngestDocuments

SpecIngest == InitIngest /\ [][NextIngest]_vars

(***************************************************************************)
(* SpecSingleton: get_chroma_manager called from NumCallers threads at     *)
(* once (the event loop serving a query or /health, and the thread pool    *)
(* running a background ingest_documents).  The function takes no lock, so *)
(* a caller may be preempted between any two of its steps: the test of the *)
(* global, ChromaManager(), the store to the global, and the load of the   *)
(* global for `return`.                                                    *)
(***************************************************************************)
NumCallers == 3

CallerIds == 1..NumCallers

\* The n-th ChromaManager instance constructed
Instance(n) == <<"ChromaManager 1", "ChromaManager 2", "ChromaManager 3",
                 "ChromaManager 4", "ChromaManager 5">>[n]

InitSingleton ==
    /\ NoQuery
    /\ IngestionIdle
    /\ threads = <<>>
    /\ channels = <<>>
    /\ callers = [c \in CallerIds |-> [pc |-> "test", made |-> None, value |-> None]]
    /\ _chroma_manager = None
    /\ constructed = 0

\* `if _chroma_manager is None:`
TestGlobal(c) ==
    /\ callers[c].pc = "test"
    /\ callers' = [callers EXCEPT ![c].pc = IF _chroma_manager = None
                                            THEN "construct" ELSE "return"]
    /\ UNCHANGED <<settings, state, pc, steps, calls, runs, exc, result, classified,
                   nroutes, candidates, ingestion, threads, channels, _chroma_manager,
                   constructed>>

\* `ChromaManager()`
Construct(c) ==
    /\ callers[c].pc = "construct"
    /\ constructed' = constructed + 1
    /\ callers' = [callers EXCEPT ![c].pc = "store",
                                  ![c].made = Instance(constructed + 1)]
    /\ UNCHANGED <<settings, state, pc, steps, calls, runs, exc, result, classified,
                   nroutes, candidates, ingestion, threads, channels, _chroma_manager>>

\* `_chroma_manager = ...`
StoreGlobal(c) ==
    /\ callers[c].pc = "store"
    /\ _chroma_manager' = callers[c].made
    /\ callers' = [callers EXCEPT ![c].pc = "return"]
    /\ UNCHANGED <<settings, state, pc, steps, calls, runs, exc, result, classified,
                   nroutes, candidates, ingestion, threads, channels, constructed>>

\* `return _chroma_manager`
ReturnGlobal(c) ==
    /\ callers[c].pc = "return"
    /\ callers' = [callers EXCEPT ![c].pc = "returned",
                                  ![c].value = _chroma_manager]
    /\ UNCHANGED <<settings, state, pc, steps, calls, runs, exc, result, classified,
                   nroutes, candidates, ingestion, threads, channels, _chroma_manager,
                   constructed>>

NextSingleton ==
    \E c \in CallerIds :
        \/ TestGlobal(c)
        \/ Construct(c)
        \/ StoreGlobal(c)
        \/ ReturnGlobal(c)

SpecSingleton == InitSingleton /\ [][NextSingleton]_vars

(***************************************************************************)
(* SpecConcurrent: two run_query calls under way at once (the API          *)
(* serves each request with one call), their supersteps interleaved in any *)
(* order.  threads[t] is the position of call t: its query, where it is,   *)
(* the supersteps its graph took, the collaborators' answers to it so far  *)
(* and what it returned; overlapped records that the call took a step      *)
(* while another call was inside its graph.  channels[g] is the AgentState *)
(* held by compiled graph g.                                               *)
(***************************************************************************)
\* The two calls under way
ThreadIds == {1, 2}

\* (one compiled graph, and so one set of channels, serving every call)
GraphOf_Shared(t) == 1

\* `app = create_workflow()`: each run_query call compiles a graph of its own
GraphOf(t) == t

\* The channels of a graph nothing was written to
EmptyChannels == [agent_thoughts |-> <<>>]

\* The queries of the concurrent calls: "Hi", "tax" and "risk"
ConcurrentQueries ==
    {<<"H", "i">>, <<"t", "a", "x">>, <<"r", "i", "s", "k">>}

\* What the collaborators may answer to one run of the retrieval node: the
\* search finds nothing, or finds three documents, or fails; the backend
\* answers, answers nothing, or fails
ConcurrentAnswers ==
    { a \in [retrieved      : {<<>>, <<Doc(2), Doc(1), Doc(3)>>},
             retrieve_fails : BOOLEAN,
             llm            : LlmAnswers,
             llm_fails      : BOOLEAN] :
        /\ a.retrieve_fails => (a.retrieved = <<>> /\ a.llm = "answer" /\ ~a.llm_fails)
        /\ a.llm_fails => a.llm = "answer" }

\* The answers the node can use on the channels s: it searches only when it
\* holds no document, and asks the backend only when it holds one
AnswersFor(s) ==
    { a \in ConcurrentAnswers :
        IF s.retrieved_docs = <<>>
        THEN a.retrieved = <<>> => (a.llm = "answer" /\ ~a.llm_fails)
        ELSE a.retrieved = <<>> /\ ~a.retrieve_fails }

InitConcurrent ==
    /\ NoQuery
    /\ IngestionIdle
    /\ threads \in [ThreadIds -> [query      : ConcurrentQueries,
                                  pc         : {"start"},
                                  steps      : {0},
                                  answers    : {<<>>},
                                  exc        : {None},
                                  result     : {[pending |-> TRUE]},
                                  overlapped : {FALSE}]]
    /\ channels = [g \in ThreadIds |-> EmptyChannels]
    /\ callers = <<>>
    /\ _chroma_manager = None
    /\ constructed = 0

\* Another call is inside its graph
OthersRunning(t) ==
    \E u \in ThreadIds \ {t} : threads[u].pc \in {"router", "retrieval"}

Overlap_(t) == threads[t].overlapped \/ OthersRunning(t)

\* run_query: create_workflow(), initial_state, and invoke() writing its
\* input to the graph's channels
ThreadInvoke(t) ==
    /\ threads[t].pc = "start"
    /\ channels' = [channels EXCEPT ![GraphOf(t)] =
                       [initial_state(threads[t].query) EXCEPT
                           !.agent_thoughts = channels[GraphOf(t)].agent_thoughts \o @]]
    /\ threads' = [threads EXCEPT ![t].pc = "router",
                                  ![t].overlapped = Overlap_(t)]
    /\ UNCHANGED <<settings, state, pc, steps, calls, runs, exc, result, classified,
                   nroutes, ingestion, callers, _chroma_manager, constructed,
                   candidates>>

\* The router node of call t and the conditional edge should_retrieve
ThreadRouter(t) ==
    /\ threads[t].pc = "router"
    /\ LET chan == WriteChannels(router_node(channels[GraphOf(t)]))
           edge == should_retrieve(chan)
       IN  /\ channels' = [channels EXCEPT ![GraphOf(t)] = AfterBranch(chan, edge)]
           /\ threads' = [threads EXCEPT ![t].pc = edge.next,
                                         ![t].steps = @ + 1,
                                         ![t].overlapped = Overlap_(t)]
    /\ UNCHANGED <<settings, state, pc, steps, calls, runs, exc, result, classified,
                   nroutes, ingestion, callers, _chroma_manager, constructed,
                   candidates>>

\* The retrieval node of call t and the conditional edge should_continue
ThreadRetrieval(t) ==
    /\ threads[t].pc = "retrieval"
    /\ threads[t].steps < RecursionLimit
    /\ \E a \in AnswersFor(channels[GraphOf(t)]) :
         LET p == process(channels[GraphOf(t)], a.retrieved, a.retrieve_fails,
                          a.llm, a.llm_fails)
         IN  IF p.raised # None
             THEN /\ channels' = [channels EXCEPT ![GraphOf(t)] = AfterRaise(@, p.state)]
                  /\ threads' = [threads EXCEPT ![t].pc = "raised",
                                                ![t].steps = @ + 1,
                                                ![t].answers = Append(@, a),
                                                ![t].exc = p.raised,
                                                ![t].overlapped = Overlap_(t)]
             ELSE LET chan == WriteChannels(p.state)
                      edge == should_continue(chan)
                  IN  /\ channels' = [channels EXCEPT ![GraphOf(t)] =
                                         AfterBranch(chan, edge)]
                      /\ threads' = [threads EXCEPT ![t].pc = edge.next,
                                                    ![t].steps = @ + 1,
                                                    ![t].answers = Append(@, a),
                                                    ![t].overlapped = Overlap_(t)]
    /\ UNCHANGED <<settings, state, pc, steps, calls, runs, exc, result, classified,
                   nroutes, ingestion, callers, _chroma_manager, constructed,
                   candidates>>

\* app.invoke of call t: the graph is out of steps before it reached END
ThreadRecursionError(t) ==
    /\ threads[t].pc = "retrieval"
    /\ threads[t].steps >= RecursionLimit
    /\ threads' = [threads EXCEPT ![t].pc = "raised",
                                  ![t].exc = "GraphRecursionError",
                                  ![t].overlapped = Overlap_(t)]
    /\ UNCHANGED <<settings, state, pc, steps, calls, runs, exc, result, classified,
                   nroutes, ingestion, channels, callers, _chroma_manager, constructed,
                   candidates>>

\* run_query of call t, after app.invoke returned final_state
ThreadReturnResult(t) ==
    /\ threads[t].pc = "end"
    /\ threads' = [threads EXCEPT ![t].pc = "returned",
                                  ![t].result = ResultOf(channels[GraphOf(t)])]
    /\ UNCHANGED <<settings, state, pc, steps, calls, runs, exc, result, classified,
                   nroutes, ingestion, channels, callers, _chroma_manager, constructed,
                   candidates>>

\* run_query of call t, `except Exception as e`
ThreadReturnError(t) ==
    /\ threads[t].pc = "raised"
    /\ threads' = [threads EXCEPT ![t].pc = "returned",
                                  ![t].result = ErrorResultOf(threads[t].query,
                                                              threads[t].exc)]
    /\ UNCHANGED <<settings, state, pc, steps, calls, runs, exc, result, classified,
                   nroutes, ingestion, channels, callers, _chroma_manager, constructed,
                   candidates>>

NextConcurrent ==
    \E t \in ThreadIds :
        \/ ThreadInvoke(t)
        \/ ThreadRouter(t)
        \/ ThreadRetrieval(t)
        \/ ThreadRecursionError(t)
        \/ ThreadReturnResult(t)
        \/ ThreadReturnError(t)

SpecConcurrent == InitConcurrent /\ [][NextConcurrent]_vars

\* One superstep on the channels s: the router node, then the conditional
\* edge should_retrieve
RouterStep(s) ==
    LET chan == WriteChannels(router_node(s))
        edge == should_retrieve(chan)
    IN  [state |-> AfterBranch(chan, edge), pc |-> edge.next]

\* One superstep on the channels s: the retrieval node, then the conditional
\* edge should_continue; or the node's exception leaving invoke()
RetrievalStep(s, retrieved, retrieve_fails, llm, llm_fails) ==
    LET p == process(s, retrieved, retrieve_fails, llm, llm_fails)
    IN  IF p.raised # None
        THEN [state |-> AfterRaise(s, p.state), pc |-> "raised",
              calls |-> p.calls, raised |-> p.raised]
        ELSE LET chan == WriteChannels(p.state)
                 edge == should_continue(chan)
             IN  [state |-> AfterBranch(chan, edge), pc |-> edge.next,
                  calls |-> p.calls, raised |-> None]

\* run_query(query) running alone, the collaborators answering `answers` to
\* the successive runs of its retrieval node: where it is after the graph's
\* supersteps n + 1 .. last
RECURSIVE SoloFrom(_, _, _, _, _, _)
SoloFrom(s, at, n, last, answers, e) ==
    IF n < last /\ at = "router"
    THEN LET r == RouterStep(s) IN SoloFrom(r.state, r.pc, n + 1, last, answers, e)
    ELSE IF n < last /\ at = "retrieval"
    THEN LET a == Head(answers)
             r == RetrievalStep(s, a.retrieved, a.retrieve_fails, a.llm, a.llm_fails)
         IN  SoloFrom(r.state, r.pc, n + 1, last, Tail(answers), r.raised)
    ELSE IF at = "retrieval" /\ n >= RecursionLimit
    THEN [state |-> s, pc |-> "raised", exc |-> "GraphRecursionError"]
    ELSE [state |-> s, pc |-> at, exc |-> e]

SoloRun(query, answers, last) ==
    SoloFrom(initial_state(query), "router", 0, last, answers, None)

\* What run_query returns from there
SoloResult(query, solo) ==
    IF solo.pc = "end" THEN ResultOf(solo.state) ELSE ErrorResultOf(query, solo.exc)

(***************************************************************************)
(* Properties.                                                             *)
(***************************************************************************)
CallsOf(fn) == { i \in 1..Len(calls) : calls[i].fn = fn }

\* No collaborator call of the run has failed
NoCollaboratorFailed == exc \notin {"RetrievalFailure", "SynthesisFailure"}

\* The run is over: the graph reached END, or run_query has returned
RunEnded == pc \in {"end", "returned"}

\* Every retrieve_documents call of the run so far returned no document
AlwaysZeroDocuments ==
    \A i \in CallsOf("retrieve_documents") : calls[i].n = 0

HasKeyword(keywords, query) ==
    \E k \in 1..Len(keywords) : Contains(keywords[k], Lower(query))

\* C1: a run classified as requiring retrieval, in which no collaborator call
\* failed, does not end before the Synthesis Adapter was called, and does not
\* end with response unset.
C1_SynthesisBeforeDone ==
    (RunEnded /\ state.requires_retrieval /\ NoCollaboratorFailed)
        => (CallsOf("generate_response") # {} /\ state.response # None)

\* C2: when retrieval returns zero documents on every call, the run performs
\* max_iterations iterations, then calls generate_response with an empty
\* document list, and the result carries the "could not find relevant
\* information" response, empty citations and no error.
C2_ZeroDocumentsGraceful ==
    (pc = "returned" /\ state.requires_retrieval /\ exc = None /\ AlwaysZeroDocuments)
        => /\ runs = state.max_iterations
           /\ calls[Len(calls)].fn = "generate_response"
           /\ calls[Len(calls)].n = 0
           /\ result.response = NO_INFORMATION
           /\ result.citations = <<>>
           /\ "error" \notin DOMAIN result

\* C3: in one run generate_response is called at most once.
C3_SynthesisAtMostOnce ==
    Cardinality(CallsOf("generate_response")) <= 1

\* C4: in one run the retrieval node executes at most max_iterations times.
C4_RunsWithinBudget ==
    runs <= state.max_iterations

\* C5: 1 <= iteration <= max_iterations in every state, and iteration only
\* changes by the retrieval node adding exactly 1 to it after an evaluation
\* that found the documents insufficient and the budget not exhausted.
C5_IterationBounded ==
    /\ [](1 <= state.iteration /\ state.iteration <= state.max_iterations)
    /\ [][state.iteration' # state.iteration
            => /\ state.iteration' = state.iteration + 1
               /\ pc = "retrieval"
               /\ Len(state.retrieved_docs') < settings.TOP_K_FINAL
               /\ state.iteration < state.max_iterations]_vars

\* C5 witness: the counter has been incremented up to max_iterations
C5_Witness ==
    /\ pc = "returned"
    /\ state.iteration >= 2
    /\ state.iteration = state.max_iterations

\* C6: retrieved_docs never holds more than TOP_K_FINAL documents, and so
\* documents_retrieved in the result never exceeds TOP_K_FINAL.
C6_DocsWithinTopK ==
    /\ Len(state.retrieved_docs) <= settings.TOP_K_FINAL
    /\ "documents_retrieved" \in DOMAIN result
           => result.documents_retrieved <= settings.TOP_K_FINAL

\* C6 witness: rerank was given more than TOP_K_FINAL candidates and the result
\* reports TOP_K_FINAL documents
C6_Witness ==
    /\ pc = "returned"
    /\ \E i \in CallsOf("rerank_documents") : calls[i].n > settings.TOP_K_FINAL
    /\ "documents_retrieved" \in DOMAIN result
    /\ result.documents_retrieved = settings.TOP_K_FINAL

\* C7: for a query that contains a greeting keyword, classification sets
\* requires_retrieval to false and the run calls no collaborator and never
\* executes the retrieval node.
C7_GreetingCallsNothing ==
    HasKeyword(greeting_keywords, state.query)
        => /\ calls = <<>>
           /\ runs = 0
           /\ pc # "router" => ~state.requires_retrieval

\* C7 witness: a finished run of a query holding a greeting and a risk keyword
C7_Witness ==
    /\ pc = "returned"
    /\ HasKeyword(greeting_keywords, state.query)
    /\ HasKeyword(risk_keywords, state.query)

\* C8: for a query classified as greeting, the final state and the result
\* carry the fixed greeting response, with no citations, no documents and
\* iterations = 1.
C8_GreetingResponseInResult ==
    (pc = "returned" /\ state.query_type = "greeting")
        => /\ state.response = GREETING_SHORT
           /\ result.response = GREETING_SHORT
           /\ result.citations = <<>>
           /\ result.documents_retrieved = 0
           /\ result.iterations = 1

\* The category the strict priority greeting, compliance, risk, general gives
PriorityCategory(query) ==
    IF HasKeyword(greeting_keywords, query) THEN "greeting"
    ELSE IF HasKeyword(compliance_keywords, query) THEN "compliance"
    ELSE IF HasKeyword(risk_keywords, query) THEN "risk"
    ELSE "general"

\* C9: every classification assigns the category of the strict priority
\* greeting, compliance, risk, general, and requires_retrieval is false
\* exactly for greeting; every call of the router yields a classification.
C9_ClassifyByPriority ==
    /\ nroutes > 0 => classified # {}
    /\ \A c \in classified :
        /\ c.query_type = PriorityCategory(c.query)
        /\ c.requires_retrieval = (c.query_type # "greeting")

\* C9 witness: all four categories were assigned, one of them to a query with a
\* risk keyword before a compliance keyword
C9_Witness ==
    /\ \E c \in classified :
        /\ HasKeyword(risk_keywords, c.query)
        /\ c.query_type = "compliance"
    /\ \E c \in classified : c.query_type = "general"
    /\ \E c \in classified :
        /\ HasKeyword(risk_keywords, c.query)
        /\ c.query_type = "greeting"

CollaboratorFailed == exc \in {"RetrievalFailure", "SynthesisFailure"}

\* C11: when retrieve_documents or the synthesis call fails, the failed call
\* is the last collaborator call of the run, the error is stored in the
\* AgentState's error field, and run_query returns a result whose error field
\* holds it.
C11_FailureCaptured ==
    (pc = "returned" /\ CollaboratorFailed)
        => /\ calls # <<>>
           /\ calls[Len(calls)].fn \in {"retrieve_documents", "llm"}
           /\ "error" \in DOMAIN result
           /\ result.error = exc
           /\ state.error # None

\* The entries of a trace whose kind is one of kinds
EntriesOf(trace, kinds) == { i \in 1..Len(trace) : trace[i].kind \in kinds }

ClassificationKinds ==
    {"classified greeting", "classified compliance", "classified risk",
     "classified general"}

\* C12: the result returned after a collaborator failed still holds the
\* trace entries appended before the failure, the classification entry among
\* them, and the query type.
C12_FailedResultKeepsState ==
    (pc = "returned" /\ CollaboratorFailed)
        => /\ "agent_thoughts" \in DOMAIN result
           /\ result.agent_thoughts = state.agent_thoughts
           /\ EntriesOf(result.agent_thoughts, ClassificationKinds) # {}
           /\ "query_type" \in DOMAIN result
           /\ result.query_type = state.query_type

\* C13: once the router has run, the trace starts with the classification
\* entry, holds it exactly once, and holds exactly one "analyzing" entry for
\* each execution of the retrieval node, in the order of the iterations.
C13_TraceChronological ==
    pc # "router"
        => LET trace    == state.agent_thoughts
               analyses == EntriesOf(trace, {"analyzing"})
           IN  /\ trace # <<>>
               /\ EntriesOf(trace, ClassificationKinds) = {1}
               /\ Cardinality(analyses) = runs
               /\ \A i, j \in analyses : i < j => trace[i].n <= trace[j].n

\* C14: every step leaves query as the caller gave it; every step after the
\* router's leaves query_type and requires_retrieval as the router set them;
\* the router's step leaves retrieved_docs, iteration, response and citations
\* as they were.
C14_ClassificationFrozen ==
    /\ [][state'.query = state.query]_vars
    /\ [][pc # "router" => /\ state'.query_type = state.query_type
                           /\ state'.requires_retrieval = state.requires_retrieval]_vars
    /\ [][pc = "router" => /\ state'.retrieved_docs = state.retrieved_docs
                           /\ state'.iteration = state.iteration
                           /\ state'.response = state.response
                           /\ state'.citations = state.citations]_vars
    /\ []("query" \in DOMAIN result => result.query = state.query)

\* C14 witness: a compliance query, returned after the retrieval node iterated
C14_Witness ==
    /\ pc = "returned"
    /\ runs >= 2
    /\ state.iteration >= 2
    /\ state.query_type = "compliance"
    /\ result.query = state.query

\* chunk_elements has returned
Chunked == ingest_pc = "chunked"

\* The chunks made from the k-th element, in the order they were emitted
ChunksOf(k) ==
    SelectSeq(doc_chunks, LAMBDA c : c.original_metadata.page_number = k)

TextElements == { k \in 1..Len(doc_elements) : ~doc_elements[k].is_table }

\* t holds a '.', '!' or '?' followed by whitespace and an upper-case letter
HasBoundary(t) ==
    \E i, j \in 1..Len(t) :
        /\ i < j
        /\ j < Len(t)
        /\ t[i] \in SentenceEnd
        /\ \A k \in (i + 1)..j : t[k] \in WhiteSpace
        /\ IsUpper(t[j + 1])

\* C15: an element with is_table true yields exactly one chunk, which carries
\* the element's text as it is and is_table true, whatever the text's length
\* and sentence boundaries; the chunks are in the order of their elements.
C15_TableOneChunk ==
    Chunked =>
        /\ \A k \in 1..Len(doc_elements) :
              doc_elements[k].is_table =>
                  ChunksOf(k) = << [text              |-> doc_elements[k].text,
                                    element_type      |-> doc_elements[k].type,
                                    is_table          |-> TRUE,
                                    original_metadata |-> doc_elements[k].metadata] >>
        /\ \A i, j \in 1..Len(doc_chunks) :
              i < j => doc_chunks[i].original_metadata.page_number
                           <= doc_chunks[j].original_metadata.page_number

\* C15 witness: a table longer than chunk_size, with a sentence boundary in
\* it, chunked between two text elements that yielded chunks
C15_Witness ==
    /\ Chunked
    /\ Len(doc_elements) = 3
    /\ doc_elements[2].is_table
    /\ HasBoundary(doc_elements[2].text)
    /\ Len(doc_elements[2].text) > chunker.chunk_size
    /\ ChunksOf(1) # <<>>
    /\ Len(ChunksOf(2)) = 1
    /\ ChunksOf(3) # <<>>

\* C16: a chunk of a text element is at most chunk_size characters long,
\* unless it is made of a single sentence.
C16_ChunkWithinSize ==
    Chunked =>
        \A k \in TextElements :
            LET packed == PackSentences(chunker, _split_sentences(doc_elements[k].text))
                own    == ChunksOf(k)
            IN  \A i \in 1..Len(own) :
                    \/ Len(own[i].text) <= chunker.chunk_size
                    \/ Len(packed[i].sentences) = 1

\* The sentences of the chunks that are not their overlap, end to end
RECURSIVE NewSentences(_)
NewSentences(packed) ==
    IF packed = <<>> THEN <<>>
    ELSE SubSeq(Head(packed).sentences, Head(packed).overlap + 1,
                Len(Head(packed).sentences))
             \o NewSentences(Tail(packed))

\* C17: every chunk of a text element is the join, with single spaces, of a
\* run of consecutive whole sentences of the text; a chunk's overlap is the
\* end of the chunk before it, and the chunks without their overlaps, end to
\* end, are the sentences of the text in order.
C17_ChunksAreSentenceRuns ==
    Chunked =>
        \A k \in TextElements :
            LET sentences == _split_sentences(doc_elements[k].text)
                packed    == PackSentences(chunker, sentences)
                own       == ChunksOf(k)
            IN  /\ Len(own) = Len(packed)
                /\ \A i \in 1..Len(own) :
                      /\ \E a, b \in 1..Len(sentences) :
                            /\ a <= b
                            /\ own[i].text = Join(<<" ">>, SubSeq(sentences, a, b))
                      /\ packed[i].overlap < Len(packed[i].sentences)
                      /\ i = 1 => packed[i].overlap = 0
                      /\ i > 1 =>
                            LET before == packed[i - 1].sentences
                                n      == packed[i].overlap
                            IN  /\ n <= Len(before)
                                /\ SubSeq(packed[i].sentences, 1, n)
                                       = SubSeq(before, Len(before) - n + 1, Len(before))
                /\ NewSentences(packed) = sentences

\* C17 witness: a text of four sentences chunked into several chunks, one of
\* them starting with an overlap of two sentences
C17_Witness ==
    /\ Chunked
    /\ \E k \in TextElements :
          LET sentences == _split_sentences(doc_elements[k].text)
              packed    == PackSentences(chunker, sentences)
          IN  /\ Len(sentences) = 4
              /\ Len(ChunksOf(k)) >= 2
              /\ \E i \in 1..Len(packed) : packed[i].overlap = 2

\* C18 (as stated): a text element whose text holds no sentence boundary
\* yields no chunk; no element yields no chunk.
C18_NoBoundarySkipped ==
    Chunked =>
        /\ doc_elements = <<>> => doc_chunks = <<>>
        /\ \A k \in TextElements :
              ~HasBoundary(doc_elements[k].text) => ChunksOf(k) = <<>>

\* C18 (amended): a text element whose text is empty or whitespace yields no
\* chunk; one whose text is not, and holds no sentence boundary, yields
\* exactly one chunk, the stripped text; no element yields no chunk.
C18_BlankTextSkipped ==
    Chunked =>
        /\ doc_elements = <<>> => doc_chunks = <<>>
        /\ \A k \in TextElements :
              LET text == doc_elements[k].text
              IN  /\ Strip(text) = <<>> => ChunksOf(k) = <<>>
                  /\ (Strip(text) # <<>> /\ ~HasBoundary(text))
                         => /\ Len(ChunksOf(k)) = 1
                            /\ ChunksOf(k)[1].text = Strip(text)

\* C18 witness: a text with punctuation and whitespace around it but no
\* sentence boundary, chunked into one chunk
C18_Witness ==
    /\ Chunked
    /\ \E k \in TextElements :
          LET text == doc_elements[k].text
          IN  /\ ~HasBoundary(text)
              /\ Strip(text) # text
              /\ \E i \in 1..Len(Strip(text)) : Strip(text)[i] \in WhiteSpace
              /\ Len(ChunksOf(k)) = 1

\* extract_metadata has run on every chunk
Extracted == ingest_pc = "extracted"

\* The categories stored in a metadata record, as generate_response splits them
CategoriesOf(metadata) == SplitComma(metadata.compliance_categories, <<>>)

\* A keyword of the entry occurs in the lower-cased text
CategoryMatches(e, text) ==
    \E k \in 1..Len(e.keywords) : Contains(e.keywords[k], Lower(text))

\* C19: the compliance categories of a metadata record are never empty; a
\* category is among them exactly once when one of its keywords occurs in the
\* lower-cased text and not at all otherwise; when no category's keywords
\* occur they are the single category 'general'.
C19_CategoriesNeverEmpty ==
    Extracted =>
        \A i \in 1..Len(all_metadatas) :
            LET text       == doc_chunks[i].text
                categories == CategoriesOf(all_metadatas[i])
                table      == MetadataExtractor.compliance_keywords
                Count(c)   == Cardinality({ j \in 1..Len(categories) : categories[j] = c })
            IN  /\ categories # <<>>
                /\ \A n \in 1..Len(table) :
                      Count(table[n].category)
                          = IF CategoryMatches(table[n], text) THEN 1 ELSE 0
                /\ (\A n \in 1..Len(table) : ~CategoryMatches(table[n], text))
                       => categories = <<GENERAL_CATEGORY>>

\* C19 witness: a text in which two keywords of KYC and a keyword of another
\* category occur, stored as those two categories
C19_Witness ==
    /\ Extracted
    /\ \E i \in 1..Len(all_metadatas) :
          LET text_lower == Lower(doc_chunks[i].text)
          IN  /\ Contains(<<"k", "y", "c">>, text_lower)
              /\ Contains(<<"k", "n", "o", "w", " ", "y", "o", "u", "r", " ", "c", "u", "s", "t", "o", "m", "e", "r">>, text_lower)
              /\ Len(CategoriesOf(all_metadatas[i])) = 2

\* The rules of the document-type inference, in the order they are tried
DocumentTypeRules ==
    <<[doc_type |-> "regulation",
       in_filename |-> <<"r", "e", "g", "u", "l", "a", "t", "i", "o", "n">>,
       in_text |-> <<"c", "f", "r">>],
      [doc_type |-> "policy",
       in_filename |-> <<"p", "o", "l", "i", "c", "y">>,
       in_text |-> <<"p", "o", "l", "i", "c", "y">>],
      [doc_type |-> "guideline",
       in_filename |-> <<"g", "u", "i", "d", "e", "l", "i", "n", "e">>,
       in_text |-> <<"g", "u", "i", "d", "a", "n", "c", "e">>],
      [doc_type |-> "audit_document",
       in_filename |-> <<"a", "u", "d", "i", "t">>,
       in_text |-> <<"a", "u", "d", "i", "t">>],
      [doc_type |-> "compliance_report",
       in_filename |-> <<"c", "o", "m", "p", "l", "i", "a", "n", "c", "e">>,
       in_text |-> <<"c", "o", "m", "p", "l", "i", "a", "n", "c", "e", " ", "r", "e", "p", "o", "r", "t">>]>>

\* The rules that match a file name and a text
MatchingRules(file, text) ==
    { r \in 1..Len(DocumentTypeRules) :
        \/ Contains(DocumentTypeRules[r].in_filename, Lower(file))
        \/ Contains(DocumentTypeRules[r].in_text, Lower(text)) }

\* C20: doc_type is the type of the first rule, in the order regulation,
\* policy, guideline, audit_document, compliance_report, that matches the
\* file name or the lower-cased text, and 'general' when none matches.
C20_FirstRuleWins ==
    Extracted =>
        \A i \in 1..Len(all_metadatas) :
            LET matching == MatchingRules(doc_filename, doc_chunks[i].text)
            IN  all_metadatas[i].doc_type =
                    IF matching = {} THEN "general"
                    ELSE DocumentTypeRules[CHOOSE r \in matching :
                                               \A q \in matching : r <= q].doc_type

\* C20 witness: the file name matches the audit_document rule only, the text
\* matches the compliance_report rule and no earlier one
C20_Witness ==
    /\ Extracted
    /\ \E i \in 1..Len(all_metadatas) :
          /\ MatchingRules(doc_filename, doc_chunks[i].text) = {4, 5}
          /\ MatchingRules(doc_filename, <<>>) = {4}
          /\ all_metadatas[i].doc_type = "audit_document"

\* C21: once generate_response has answered, the citations are as many as the
\* documents it was given, citation i has index i and the filename and
\* chunk_index of the i-th document; for no document there is no citation
\* and the generation backend is not called.
C21_CitationsFollowDocuments ==
    (state.response # None /\ exc = None)
        => LET documents == state.retrieved_docs
               citations == state.citations
           IN  /\ Len(citations) = Len(documents)
               /\ \A i \in 1..Len(citations) :
                     /\ citations[i].index = i
                     /\ citations[i].filename = documents[i].metadata.filename
                     /\ citations[i].chunk_index = documents[i].metadata.chunk_index
               /\ documents = <<>> => CallsOf("llm") = {}

\* C21 witness: a returned run whose two documents were put by rerank in
\* another order than the index holds them, cited in that order
C21_Witness ==
    /\ pc = "returned"
    /\ exc = None
    /\ Len(state.retrieved_docs) = 2
    /\ state.retrieved_docs[1].id > state.retrieved_docs[2].id
    /\ state.retrieved_docs[1].metadata.filename # state.retrieved_docs[2].metadata.filename
    /\ Len(result.citations) = 2
    /\ result.citations[1].filename = state.retrieved_docs[1].metadata.filename
    /\ result.citations[2].filename = state.retrieved_docs[2].metadata.filename

\* C22: the compliance_categories of the citation built from a stored chunk
\* are the categories _identify_compliance_categories finds in the chunk's
\* text, in the same order: 'KYC' among them when the text holds "kyc", and
\* 'general' alone when no keyword occurs.
C22_CategoriesRoundTrip ==
    ingest_pc = "cited" =>
        /\ Len(cited) = Len(doc_chunks)
        /\ \A i \in 1..Len(cited) :
              LET text       == doc_chunks[i].text
                  table      == MetadataExtractor.compliance_keywords
                  categories == cited[i].compliance_categories
              IN  /\ categories = _identify_compliance_categories(MetadataExtractor, text)
                  /\ Contains(<<"k", "y", "c">>, Lower(text))
                         => \E j \in 1..Len(categories) : categories[j] = <<"K", "Y", "C">>
                  /\ (\A n \in 1..Len(table) : ~CategoryMatches(table[n], text))
                         => categories = <<GENERAL_CATEGORY>>

\* C22 witness: a chunk mentioning AML and KYC, cited with both, in that order
C22_Witness ==
    /\ ingest_pc = "cited"
    /\ Len(cited) = 1
    /\ cited[1].compliance_categories = <<<<"A", "M", "L">>, <<"K", "Y", "C">>>>
    /\ all_metadatas[1].compliance_categories = <<"A", "M", "L", ",", "K", "Y", "C">>

(***************************************************************************)
(* C23: run_query calls under way at once share no AgentState.  After any  *)
(* interleaving of their supersteps, the state each call's graph holds     *)
(* (category, retrieved_docs, iteration, response, citations and           *)
(* agent_thoughts among its keys), where the call is, and what it returned *)
(* are those of the same call running alone with the same collaborator     *)
(* answers; so its trace holds no entry written by another call.           *)
(***************************************************************************)
C23_RunsIsolated ==
    \A t \in DOMAIN threads :
        threads[t].pc # "start" =>
            LET solo == SoloRun(threads[t].query, threads[t].answers, threads[t].steps)
            IN  /\ channels[GraphOf(t)] = solo.state
                /\ threads[t].pc \in {"end", "raised"} =>
                       (threads[t].pc = solo.pc /\ threads[t].exc = solo.exc)
                /\ threads[t].pc = "returned" =>
                       threads[t].result = SoloResult(threads[t].query, solo)

\* Two calls that overlapped, with different queries, have both returned:
\* one a greeting, the other an answer made after more than one iteration
C23_Witness ==
    /\ DOMAIN threads = ThreadIds
    /\ \E t, u \in ThreadIds :
         /\ threads[t].pc = "returned" /\ threads[u].pc = "returned"
         /\ threads[t].overlapped /\ threads[u].overlapped
         /\ threads[t].query # threads[u].query
         /\ "query_type" \in DOMAIN threads[t].result
         /\ threads[t].result.query_type = "greeting"
         /\ "iterations" \in DOMAIN threads[u].result
         /\ threads[u].result.iterations > 1
         /\ threads[u].result.citations # <<>>

(***************************************************************************)
(* C24: loading a directory never raises; a file whose reading fails (it   *)
(* cannot be opened, or one of its pages cannot be read) is stored with an *)
(* empty element list; every other file is stored under its name with one  *)
(* element per non-blank page, in page order, whatever files failed before *)
(* it; and the returned dict has an entry for every file.                  *)
(***************************************************************************)
ReadingFails(file) ==
    ~file.readable \/ \E k \in 1..Len(file.pages) : file.pages[k].fails

NonBlankPages(file) ==
    { k \in 1..Len(file.pages) : Strip(file.pages[k].text) # <<>> }

C24_FailedFileIsolated ==
    /\ ingest_exc = None
    /\ ingest_pc # "raised"
    /\ Len(all_documents) <= Len(pdf_files)
    /\ ingest_pc = "loaded" => Len(all_documents) = Len(pdf_files)
    /\ \A i \in 1..Len(all_documents) :
         LET file == pdf_files[i]
             elements == all_documents[i].elements
         IN  /\ all_documents[i].filename = file.name
             /\ ReadingFails(file) => elements = <<>>
             /\ ~ReadingFails(file) =>
                  /\ Len(elements) = Cardinality(NonBlankPages(file))
                  /\ \A k \in 1..Len(elements) :
                       /\ elements[k].metadata.page_number \in NonBlankPages(file)
                       /\ elements[k].text =
                              file.pages[elements[k].metadata.page_number].text
                       /\ elements[k].metadata.filename = file.name
                       /\ k > 1 => elements[k - 1].metadata.page_number
                                       < elements[k].metadata.page_number

\* A directory of three files was loaded: the middle one failed after a page
\* of it was read, and the files before and after it have their elements
C24_Witness ==
    /\ ingest_pc = "loaded"
    /\ Len(pdf_files) = 3
    /\ pdf_files[2].pages = <<TextPage, FailingPage>>
    /\ all_documents[2].elements = <<>>
    /\ Len(all_documents[1].elements) = 2
    /\ Len(all_documents[3].elements) = 1

(***************************************************************************)
(* C25: an evaluation that finds the documents insufficient with the       *)
(* budget not exhausted is followed by another retrieval attempt: while no *)
(* response has been generated, every run of the retrieval node has called *)
(* retrieve_documents, each time with the run's query and TOP_K_RETRIEVAL, *)
(* whether the node held no document or fewer than TOP_K_FINAL.            *)
(***************************************************************************)
C25_RetrievalReattempted ==
    CallsOf("generate_response") = {} =>
        /\ Cardinality(CallsOf("retrieve_documents")) = runs
        /\ \A i \in CallsOf("retrieve_documents") :
             /\ calls[i].query = state.query
             /\ calls[i].k = settings.TOP_K_RETRIEVAL

(***************************************************************************)
(* C26: after a retrieval that returned n >= 1 candidates, retrieved_docs  *)
(* holds exactly min(n, TOP_K_FINAL) of them, each a different candidate,  *)
(* in ascending order of distance (999 for a candidate without one), and   *)
(* no candidate left out is closer than one kept; rerank_documents was     *)
(* called once.  After a retrieval that returned nothing, retrieved_docs   *)
(* is empty and rerank_documents was not called.                           *)
(***************************************************************************)
DistanceOf(d) == IF "distance" \in DOMAIN d THEN d.distance ELSE 999

C26_ClosestCandidatesKept ==
    pc = "processed" =>
        LET docs == state.retrieved_docs
            n    == Len(candidates)
        IN  IF n = 0
            THEN docs = <<>> /\ CallsOf("rerank_documents") = {}
            ELSE /\ Len(docs) = Min(n, settings.TOP_K_FINAL)
                 /\ Cardinality(CallsOf("rerank_documents")) = 1
                 /\ \A k \in 1..Len(docs) : \E i \in 1..n : docs[k] = candidates[i]
                 /\ \A k, l \in 1..Len(docs) : k # l => docs[k].id # docs[l].id
                 /\ \A k \in 2..Len(docs) : DistanceOf(docs[k - 1]) <= DistanceOf(docs[k])
                 /\ \A i \in 1..n :
                      (\A k \in 1..Len(docs) : docs[k] # candidates[i]) =>
                          \A k \in 1..Len(docs) :
                              DistanceOf(docs[k]) <= DistanceOf(candidates[i])

\* Three candidates came back, the first without a distance, the second
\* farther than 999 and the third at distance 0; two were kept: the third and
\* then the first
C26_Witness ==
    /\ pc = "processed"
    /\ Len(candidates) = 3
    /\ "distance" \notin DOMAIN candidates[1]
    /\ DistanceOf(candidates[2]) = 1000
    /\ DistanceOf(candidates[3]) = 0
    /\ Len(state.retrieved_docs) = 2
    /\ state.retrieved_docs[1] = candidates[3]
    /\ state.retrieved_docs[2] = candidates[1]

(***************************************************************************)
(* C27: when a chunk of a text element is closed, the next chunk starts    *)
(* with a suffix of the closed chunk's sentences, in their order: the      *)
(* longest one whose lengths sum to at most chunk_overlap (none when the   *)
(* last sentence alone is longer).  After it comes the sentence that did   *)
(* not fit, the next sentence of the text.                                 *)
(***************************************************************************)
\* The last n of the sentences
Suffix(sentences, n) == SubSeq(sentences, Len(sentences) - n + 1, Len(sentences))

\* How many sentences of the text the first i chunks took in, overlaps aside
NewUpTo(packed, i) == Len(NewSentences(SubSeq(packed, 1, i)))

C27_SeedIsLongestSuffix ==
    Chunked =>
        \A k \in TextElements :
            LET sentences == _split_sentences(doc_elements[k].text)
                packed    == PackSentences(chunker, sentences)
                own       == ChunksOf(k)
            IN  /\ Len(own) = Len(packed)
                /\ \A i \in 1..Len(own) : own[i].text = Join(<<" ">>, packed[i].sentences)
                /\ \A i \in 1..(Len(packed) - 1) :
                     LET closed == packed[i].sentences
                         next   == packed[i + 1].sentences
                         n      == packed[i + 1].overlap
                     IN  /\ n <= Len(closed)
                         /\ n < Len(next)
                         /\ SubSeq(next, 1, n) = Suffix(closed, n)
                         /\ TotalLen(Suffix(closed, n)) <= chunker.chunk_overlap
                         /\ n < Len(closed) =>
                                TotalLen(Suffix(closed, n + 1)) > chunker.chunk_overlap
                         /\ next[n + 1] = sentences[NewUpTo(packed, i) + 1]

\* A text element gave a chunk of at least two sentences whose successor
\* starts with exactly its last sentence, that sentence filling chunk_overlap
\* to the character; and another text gave a chunk followed by one that starts
\* with no sentence of it
C27_Witness ==
    /\ Chunked
    /\ \E k \in TextElements :
         LET packed == PackSentences(chunker, _split_sentences(doc_elements[k].text))
         IN  \E i \in 1..(Len(packed) - 1) :
                 /\ Len(packed[i].sentences) >= 2
                 /\ packed[i + 1].overlap = 1
                 /\ TotalLen(Suffix(packed[i].sentences, 1)) = chunker.chunk_overlap
    /\ \E k \in TextElements :
         LET packed == PackSentences(chunker, _split_sentences(doc_elements[k].text))
         IN  \E i \in 1..(Len(packed) - 1) :
                 /\ packed[i + 1].overlap = 0
                 /\ chunker.chunk_overlap > 0

(***************************************************************************)
(* C28: the calls of one run come in the order of its phases.  The router  *)
(* classifies exactly once, before any collaborator call; rerank_documents *)
(* is called only directly after a retrieve_documents call that returned   *)
(* documents, on those documents; generate_response is called only after a *)
(* retrieve_documents call of the run, and no retrieval or rerank call     *)
(* comes after it; once the run is over no collaborator is called.         *)
(***************************************************************************)
Synthesis == {"generate_response", "llm"}

RunOver == pc \in {"end", "raised", "returned"}

CallsOrdered ==
    /\ pc = "router" => (steps = 0 /\ calls = <<>>)
    /\ pc # "router" => (steps - runs = 1 /\ state.query_type # None)
    /\ \A i \in CallsOf("rerank_documents") :
         /\ i > 1
         /\ calls[i - 1].fn = "retrieve_documents"
         /\ calls[i - 1].n >= 1
         /\ calls[i].n = calls[i - 1].n
    /\ \A i \in CallsOf("generate_response") :
         \E j \in CallsOf("retrieve_documents") : j < i
    /\ \A i, j \in 1..Len(calls) :
         (i < j /\ calls[i].fn \in Synthesis) => calls[j].fn \in Synthesis

C28_CallsFollowPhases == []CallsOrdered /\ [][RunOver => calls' = calls]_vars

\* A run has returned after its search found nothing in iteration 1 and
\* documents in iteration 2, which were reranked and then synthesized
C28_Witness ==
    /\ pc = "returned"
    /\ Len(calls) >= 4
    /\ calls[1].fn = "retrieve_documents" /\ calls[1].n = 0
    /\ calls[2].fn = "retrieve_documents" /\ calls[2].n >= 1
    /\ calls[3].fn = "rerank_documents"
    /\ calls[4].fn = "generate_response"

(***************************************************************************)
(* C29: whatever the interleaving of concurrent get_chroma_manager calls,  *)
(* at most one ChromaManager is constructed and every caller that has      *)
(* returned holds the same instance.                                       *)
(***************************************************************************)
C29_SingleInstance ==
    /\ constructed <= 1
    /\ \A c, d \in DOMAIN callers :
         (callers[c].pc = "returned" /\ callers[d].pc = "returned")
             => callers[c].value = callers[d].value

(***************************************************************************)
(* C30: over ingestion calls made without reset, no id handed to the index *)
(* is handed twice, in one call or in two, so no call is refused and every *)
(* chunk handed over is stored.                                            *)
(***************************************************************************)
\* The places of the ids handed over: call and position
Handed == { <<a, i>> : a \in 1..Len(handed), i \in 1..MaxChunksPerFile * Len(IngestFiles) }

HandedIds == { p \in Handed : p[2] <= Len(handed[p[1]]) }

\* Within each call the ids are pairwise distinct, across its files
IdsDistinctWithinCall ==
    \A p, q \in HandedIds :
        (p[1] = q[1] /\ p[2] # q[2]) => handed[p[1]][p[2]] # handed[q[1]][q[2]]

C30_IdsNeverCollide ==
    /\ \A p, q \in HandedIds : p # q => handed[p[1]][p[2]] # handed[q[1]][q[2]]
    /\ ingest_exc = None
    /\ Len(collection) = Cardinality(HandedIds)

====
